---------------------------- MODULE Spec2Model ----------------------------
(***************************************************************************)
(* A model of the beryllium compiler core: the lexer (src/src/tokenize.rs), *)
(* the recursive-descent parser (src/src/parser.rs), the type registry     *)
(* (src/src/type_registry.rs), the codegen context (src/src/context.rs)    *)
(* and the x86 code generator (src/src/codegen/x86.rs), driven by the      *)
(* compile pipeline of src/src/lib.rs.                                     *)
(*                                                                         *)
(* Representation.                                                         *)
(*   char            a one-character string                                *)
(*   String          a TLA+ string (built with \o from chars)              *)
(*   Option<T>       <<>> for None, <<v>> for Some(v)                      *)
(*   enum variants   tuples whose first element is the variant's name      *)
(*   Result<T, E>    a record [st, val, err, s]: st is "Ok", "Err" or      *)
(*                   "Panic" (an .expect()/.unwrap() on None, or a checked *)
(*                   arithmetic overflow, aborts the process); s is the    *)
(*                   state of the &mut self object after the call          *)
(*   u64             an integer; a wrapped value is kept as its            *)
(*                   representative modulo 2^64 nearest to zero            *)
(***************************************************************************)
EXTENDS Integers, Sequences, FiniteSets, TLC

VARIABLES
    source,     \* lib.rs compile: source_code, as a sequence of chars
    pc,         \* the stage compile is at / the position of the codegen walk
    tree,       \* compile: the result of parser.parse()
    context,    \* compile: the Context handed to codegen
    code,       \* compile: generated_code, as a sequence of lines
    result,     \* compile: the Result the pipeline ends with
    last,       \* the last codegen_x86 call made on the context, with its outcome
    calls,      \* the number of codegen_x86 calls made on the context
    overflow_checks, \* the build profile: TRUE when integer overflow panics
                \* (debug), FALSE when it wraps (release)
    stream,     \* tokenize.rs: the TokenStream being iterated
    lexed,      \* the items TokenStream::next has returned so far
    labels,     \* context.rs: the labels create_label has returned so far
    parser,     \* parser.rs: the Parser whose lookahead is exercised
    machine     \* the x86-64 machine running the generated text

vars == <<source, pc, tree, context, code, result, last, calls, overflow_checks, stream, lexed, labels, parser, machine>>

RECURSIVE lex_identifier_loop(_, _)
RECURSIVE lex_number_loop(_, _)
RECURSIVE TokenStreamNext(_)
RECURSIVE peek_ahead(_, _)
RECURSIVE Call(_, _)
RECURSIVE parse_params(_)
RECURSIVE parse_block_loop(_, _)
RECURSIVE parse_items(_, _)
RECURSIVE Text(_)
RECURSIVE register_types(_, _)
RECURSIVE register_types_keep_first(_, _)
RECURSIVE get_offset_loop(_, _, _, _)
RECURSIVE is_mutable_loop(_, _)
RECURSIVE declare_params(_, _, _, _)
RECURSIVE CodegenStatement(_, _)
RECURSIVE CodegenExpr(_, _)
RECURSIVE reduce_statements(_, _, _)
RECURSIVE reduce_args(_, _, _)
RECURSIVE CodegenProgram(_, _, _)
RECURSIVE ChainWords(_, _)
RECURSIVE LeftAssociative(_, _)
RECURSIVE Stratified(_)
RECURSIVE InOrder(_)
RECURSIVE TokensOf(_)
RECURSIVE NestLoops(_)
RECURSIVE JumpEvents(_)
RECURSIVE Ascending(_)
RECURSIVE Eval(_)

---------------------------------------------------------------------------
(* Option and Result *)

None == <<>>
Some(v) == <<v>>
IsSome(o) == o # <<>>
Unwrap(o) == o[1]

Ok(v, s) == [st |-> "Ok", val |-> v, err |-> <<>>, s |-> s]
Err(e, s) == [st |-> "Err", val |-> <<>>, err |-> e, s |-> s]
Panic(msg, s) == [st |-> "Panic", val |-> <<>>, err |-> <<"Panic", msg>>, s |-> s]

\* let x = v; K(x)
Bind(v, K(_)) == K(v)

\* let r = m?; K(r): an Err (or a panic) of m ends the enclosing function
Try(m, K(_)) == IF m.st # "Ok" THEN m ELSE K(m)

---------------------------------------------------------------------------
(* tokenize.rs: characters *)

\* char::is_alphabetic, on the characters the inputs of this model use
is_alphabetic(c) ==
    c \in {"a", "b", "c", "d", "e", "f", "g", "h", "i", "j", "k", "l", "m",
           "n", "o", "p", "q", "r", "s", "t", "u", "v", "w", "x", "y", "z",
           "A", "B", "X", "Z"}

\* char::is_numeric
is_numeric(c) == c \in {"0", "1", "2", "3", "4", "5", "6", "7", "8", "9"}

\* char::is_alphanumeric
is_alphanumeric(c) == is_alphabetic(c) \/ is_numeric(c)

\* char::is_whitespace that knows the space only
is_whitespace_space_only(c) == c = " "

\* char::is_whitespace
is_whitespace(c) == c \in {" ", "\t", "\n", "\r"}

\* 0 as char
NUL == "NUL"

---------------------------------------------------------------------------
(* tokenize.rs: Location, Token, TokenStream *)

LocationDefault == [index |-> 0, line |-> 1, column |-> 1]

Token(data, location) == [data |-> data, location |-> location]

Identifier(s) == <<"Identifier", s>>
IntegerLiteral(s) == <<"IntegerLiteral", s>>
Keyword(k) == <<"Keyword", k>>
Symbol(k) == <<"Symbol", k>>

TokenStreamNew(src) == [source |-> src, location |-> LocationDefault]

\* Tokenize::tokenize
tokenize(src) == TokenStreamNew(src)

\* TokenStream::peek
TokenStreamPeek(ts) == IF ts.source = <<>> THEN None ELSE Some(Head(ts.source))

\* TokenStream::consume: the stream after the call (the char is Head(ts.source))
TokenStreamConsume(ts) ==
    IF ts.source = <<>> THEN ts
    ELSE [source |-> Tail(ts.source),
          location |->
              IF Head(ts.source) = "\n"
              THEN [index |-> ts.location.index + 1,
                    line |-> ts.location.line + 1, column |-> 1]
              ELSE [index |-> ts.location.index + 1,
                    line |-> ts.location.line,
                    column |-> ts.location.column + 1]]

\* the keyword table of lex_identifier
KeywordOf(buffer) ==
    CASE buffer = "exit" -> Keyword("Exit")
      [] buffer = "let" -> Keyword("Let")
      [] buffer = "mut" -> Keyword("Mut")
      [] buffer = "if" -> Keyword("If")
      [] buffer = "else" -> Keyword("Else")
      [] buffer = "loop" -> Keyword("Loop")
      [] buffer = "while" -> Keyword("While")
      [] buffer = "break" -> Keyword("Break")
      [] buffer = "continue" -> Keyword("Continue")
      [] buffer = "fn" -> Keyword("Fn")
      [] buffer = "return" -> Keyword("Return")
      [] OTHER -> Identifier(buffer)

\* the while loop of lex_identifier
lex_identifier_loop(ts, buffer) ==
    IF ts.source # <<>>
       /\ (is_alphanumeric(Head(ts.source)) \/ Head(ts.source) = "_")
    THEN lex_identifier_loop(TokenStreamConsume(ts), buffer \o Head(ts.source))
    ELSE [buffer |-> buffer, ts |-> ts]

\* TokenStream::lex_identifier with the location read after the while loop
lex_identifier_late(ts) ==
    Bind(lex_identifier_loop(ts, ""), LAMBDA r :
        [tok |-> Token(KeywordOf(r.buffer), r.ts.location), ts |-> r.ts])

\* TokenStream::lex_identifier: [tok, ts]
lex_identifier(ts) ==
    Bind(lex_identifier_loop(ts, ""), LAMBDA r :
        [tok |-> Token(KeywordOf(r.buffer), ts.location), ts |-> r.ts])

\* the while loop of lex_number
lex_number_loop(ts, buffer) ==
    IF ts.source # <<>> /\ is_numeric(Head(ts.source))
    THEN lex_number_loop(TokenStreamConsume(ts), buffer \o Head(ts.source))
    ELSE [buffer |-> buffer, ts |-> ts]

\* TokenStream::lex_number: [tok, ts]
lex_number(ts) ==
    Bind(lex_number_loop(ts, ""), LAMBDA r :
        [tok |-> Token(IntegerLiteral(r.buffer), ts.location), ts |-> r.ts])

\* the arms of lex_symbol that match a following = without consuming it
lex_symbol_eq_peek_only(ts1, withEq, without) ==
    IF TokenStreamPeek(ts1) = Some("=")
    THEN Ok(withEq, ts1)
    ELSE IF without = "" THEN Err(<<"UnrecognizedCharacter", "!">>, ts1)
    ELSE Ok(without, ts1)

\* the match self.peek().unwrap_or(0 as char) arms of lex_symbol
lex_symbol_eq(ts1, withEq, without) ==
    IF TokenStreamPeek(ts1) = Some("=")
    THEN Ok(withEq, TokenStreamConsume(ts1))
    ELSE IF without = "" THEN Err(<<"UnrecognizedCharacter", "!">>, ts1)
    ELSE Ok(without, ts1)

\* the match character of lex_symbol, on the stream ts1 after the character
lex_symbol_match(character, ts1) ==
    CASE character = "(" -> Ok("LParen", ts1)
      [] character = ")" -> Ok("RParen", ts1)
      [] character = "{" -> Ok("LBrace", ts1)
      [] character = "}" -> Ok("RBrace", ts1)
      [] character = "<" -> lex_symbol_eq(ts1, "LesserEqual", "LAngle")
      [] character = ">" -> lex_symbol_eq(ts1, "GreaterEqual", "RAngle")
      [] character = "!" -> lex_symbol_eq(ts1, "NonEquality", "")
      [] character = "=" -> lex_symbol_eq(ts1, "Equality", "Equals")
      [] character = ";" -> Ok("Semi", ts1)
      [] character = "," -> Ok("Comma", ts1)
      [] character = "+" -> lex_symbol_eq(ts1, "PlusEq", "Plus")
      [] character = "-" -> lex_symbol_eq(ts1, "MinusEq", "Minus")
      [] character = "*" -> lex_symbol_eq(ts1, "StarEq", "Star")
      [] character = "/" -> lex_symbol_eq(ts1, "SlashEq", "Slash")
      [] character = "%" -> lex_symbol_eq(ts1, "PercentEq", "Percent")
      [] OTHER -> Err(<<"UnrecognizedCharacter", character>>, ts1)

\* TokenStream::lex_symbol giving back the character it cannot lex
lex_symbol_unconsumed(ts) ==
    IF ts.source = <<>> THEN Err(<<"UnrecognizedCharacter", NUL>>, ts)
    ELSE IF lex_symbol_match(Head(ts.source), TokenStreamConsume(ts)).st = "Err"
    THEN [lex_symbol_match(Head(ts.source), TokenStreamConsume(ts)) EXCEPT !.s = ts]
    ELSE lex_symbol_match(Head(ts.source), TokenStreamConsume(ts))

\* TokenStream::lex_symbol
lex_symbol(ts) ==
    IF ts.source = <<>> THEN Err(<<"UnrecognizedCharacter", NUL>>, ts)
    ELSE lex_symbol_match(Head(ts.source), TokenStreamConsume(ts))

\* <TokenStream as FallibleIterator>::next: Result<Option<Token>, TokenizerError>
TokenStreamNext(ts) ==
    IF ts.source = <<>> THEN Ok(None, ts)
    ELSE IF is_alphabetic(Head(ts.source)) \/ Head(ts.source) = "_"
    THEN Bind(lex_identifier(ts), LAMBDA r : Ok(Some(r.tok), r.ts))
    ELSE IF is_numeric(Head(ts.source))
    THEN Bind(lex_number(ts), LAMBDA r : Ok(Some(r.tok), r.ts))
    ELSE IF is_whitespace(Head(ts.source))
    THEN TokenStreamNext(TokenStreamConsume(ts))
    ELSE Try(lex_symbol(ts), LAMBDA r :
         Ok(Some(Token(Symbol(r.val), ts.location)), r.s))

---------------------------------------------------------------------------
(* ast.rs *)

\* Expr::map_left: the node base with its left child replaced by f(left child).
\* The closure f is |lhs| Expr::<variant>(Box::new(expr), lhs), held as the
\* record of what it captures.
map_left(base, f) == <<base[1], <<f.variant, f.expr, base[2]>>, base[3]>>

---------------------------------------------------------------------------
(* parser.rs.  A Parser is [tokens |-> TokenStream, buffer |-> Seq(Token)]. *)

ParserNew(tokens) == [tokens |-> tokens, buffer |-> <<>>]

UnexpectedToken(tok) == <<"UnexpectedToken", tok>>

\* impl From<TokenizerError> for ParseError, applied by ?
FromTokenizerError(r) ==
    IF r.st = "Err" THEN [r EXCEPT !.err = <<"TokenizerError", r.err>>] ELSE r

\* Parser::peek_ahead: Result<Option<Token>, TokenizerError>
peek_ahead(p, count) ==
    IF Len(p.buffer) < count + 1
    THEN Bind(TokenStreamNext(p.tokens), LAMBDA r :
             IF r.st # "Ok" THEN [r EXCEPT !.s = [p EXCEPT !.tokens = r.s]]
             ELSE IF IsSome(r.val)
             THEN peek_ahead([tokens |-> r.s,
                              buffer |-> Append(p.buffer, Unwrap(r.val))], count)
             ELSE Ok(None, [p EXCEPT !.tokens = r.s]))
    ELSE Ok(Some(p.buffer[count + 1]), p)

\* Parser::peek
peek(p) == peek_ahead(p, 0)

\* Parser::consume that always asks the lexer, whatever the buffer holds
consume_unbuffered(p) ==
    Bind(TokenStreamNext(p.tokens), LAMBDA r :
        [r EXCEPT !.s = [p EXCEPT !.tokens = r.s]])

\* Parser::consume
consume(p) ==
    IF p.buffer = <<>>
    THEN Bind(TokenStreamNext(p.tokens), LAMBDA r :
             [r EXCEPT !.s = [p EXCEPT !.tokens = r.s]])
    ELSE Ok(Some(Head(p.buffer)), [p EXCEPT !.buffer = Tail(p.buffer)])

\* Parser::is_empty
is_empty(p) == Try(peek(p), LAMBDA r : Ok(r.val = None, r.s))

\* match self.consume()?.expect(msg) { Token { data: <data>, .. } => (),
\*                                      tok => return Err(UnexpectedToken(tok)) }
expect_token(p, data, msg) ==
    Try(FromTokenizerError(consume(p)), LAMBDA r :
        IF r.val = None THEN Panic(msg, r.s)
        ELSE IF Unwrap(r.val).data = data THEN Ok(<<>>, r.s)
        ELSE Err(UnexpectedToken(Unwrap(r.val)), r.s))

\* match self.consume()?.expect(msg) { Token { data: Identifier(ident), .. } => ident,
\*                                      tok => return Err(UnexpectedToken(tok)) }
expect_identifier(p, msg) ==
    Try(FromTokenizerError(consume(p)), LAMBDA r :
        IF r.val = None THEN Panic(msg, r.s)
        ELSE IF Unwrap(r.val).data[1] = "Identifier"
        THEN Ok(Unwrap(r.val).data[2], r.s)
        ELSE Err(UnexpectedToken(Unwrap(r.val)), r.s))

\* parse_params after an identifier tok has been peeked: consume it, then a
\* right parenthesis ends the list and a comma continues it
parse_params_rest(p, tok) ==
    Try(FromTokenizerError(consume(p)), LAMBDA r1 :
    Try(FromTokenizerError(peek(r1.s)), LAMBDA r2 :
        IF r2.val = None THEN Panic("a comma or a right parenthesis", r2.s)
        ELSE IF Unwrap(r2.val).data = Symbol("RParen")
        THEN Ok(<<[name |-> tok.data[2]]>>, r2.s)
        ELSE IF Unwrap(r2.val).data = Symbol("Comma")
        THEN Try(FromTokenizerError(consume(r2.s)), LAMBDA r3 :
             Try(parse_params(r3.s), LAMBDA r4 :
             Ok(<<[name |-> tok.data[2]]>> \o r4.val, r4.s)))
        ELSE Err(UnexpectedToken(Unwrap(r2.val)), r2.s)))

\* Parser::parse_params
parse_params(p) ==
    Try(FromTokenizerError(peek(p)), LAMBDA r0 :
        IF r0.val = None THEN Panic("an identifier or a right parenthesis", r0.s)
        ELSE IF Unwrap(r0.val).data = Symbol("RParen") THEN Ok(<<>>, r0.s)
        ELSE IF Unwrap(r0.val).data[1] # "Identifier"
        THEN Err(UnexpectedToken(Unwrap(r0.val)), r0.s)
        ELSE parse_params_rest(r0.s, Unwrap(r0.val)))

\* parse_item, arm Keyword::Fn
parse_item_function(p) ==
    Try(FromTokenizerError(consume(p)), LAMBDA r1 :
    Try(expect_identifier(r1.s, "an identifier"), LAMBDA r2 :
    Try(expect_token(r2.s, Symbol("LParen"), "a left parenthesis"), LAMBDA r3 :
    Try(parse_params(r3.s), LAMBDA r4 :
    Try(expect_token(r4.s, Symbol("RParen"), "a right parenthesis"), LAMBDA r5 :
    Try(Call("parse_statement", r5.s), LAMBDA r6 :
    Ok(<<"Function", r2.val, r4.val, r6.val>>, r6.s)))))))

\* Parser::parse_item
parse_item(p) ==
    Try(FromTokenizerError(peek(p)), LAMBDA r0 :
        IF r0.val = None THEN Panic("a token", r0.s)
        ELSE IF Unwrap(r0.val).data = Keyword("Fn") THEN parse_item_function(r0.s)
        ELSE Err(UnexpectedToken(Unwrap(r0.val)), r0.s))

\* the while loop of Parser::parse
parse_items(p, program) ==
    Try(FromTokenizerError(is_empty(p)), LAMBDA e :
        IF e.val THEN Ok(program, e.s)
        ELSE Try(parse_item(e.s), LAMBDA r :
             parse_items(r.s, Append(program, r.val))))

\* Parser::parse
parse(p) == parse_items(p, <<>>)

\* Result::map(Statement::Expr)
map_StatementExpr(r) == IF r.st = "Ok" THEN [r EXCEPT !.val = <<"Expr", r.val>>] ELSE r

\* parse_statement, arm Keyword::Exit
parse_statement_exit(p) ==
    Try(FromTokenizerError(consume(p)), LAMBDA r1 :
    Try(expect_token(r1.s, Symbol("LParen"), "a left parenthesis"), LAMBDA r2 :
    Try(Call("parse_expression", r2.s), LAMBDA r3 :
    Try(expect_token(r3.s, Symbol("RParen"), "a right parenthesis"), LAMBDA r4 :
    Try(expect_token(r4.s, Symbol("Semi"), "a semicolon"), LAMBDA r5 :
    Ok(<<"Exit", r3.val>>, r5.s))))))

\* parse_statement, arm Keyword::Let, after let and an optional mut
parse_statement_let_binding(p, is_mutable_) ==
    Try(expect_identifier(p, "an identifier"), LAMBDA r4 :
    Try(expect_token(r4.s, Symbol("Equals"), "an equals sign"), LAMBDA r5 :
    Try(Call("parse_expression", r5.s), LAMBDA r6 :
    Try(expect_token(r6.s, Symbol("Semi"), "a semicolon"), LAMBDA r7 :
    Ok(<<"Let", r4.val, r6.val, is_mutable_>>, r7.s)))))

\* parse_statement, arm Keyword::Let
parse_statement_let(p) ==
    Try(FromTokenizerError(consume(p)), LAMBDA r1 :
    Try(FromTokenizerError(peek(r1.s)), LAMBDA r2 :
        IF r2.val = None THEN Panic("an identifier or mut", r2.s)
        ELSE IF Unwrap(r2.val).data = Keyword("Mut")
        THEN Try(FromTokenizerError(consume(r2.s)), LAMBDA r3 :
             parse_statement_let_binding(r3.s, TRUE))
        ELSE parse_statement_let_binding(r2.s, FALSE)))

\* parse_statement, arms Keyword::Break and Keyword::Continue
parse_statement_jump(p, stmt) ==
    Try(FromTokenizerError(consume(p)), LAMBDA r1 :
    Try(expect_token(r1.s, Symbol("Semi"), "a semicolon"), LAMBDA r2 :
    Ok(stmt, r2.s)))

\* parse_statement, arm Keyword::Return
parse_statement_return(p) ==
    Try(FromTokenizerError(consume(p)), LAMBDA r1 :
    Try(Call("parse_expression", r1.s), LAMBDA r2 :
    Try(expect_token(r2.s, Symbol("Semi"), "a semicolon"), LAMBDA r3 :
    Ok(<<"Return", r2.val>>, r3.s))))

\* parse_statement, the _ arm: an expression and a semicolon
parse_statement_expr(p) ==
    Try(Call("parse_expression", p), LAMBDA r1 :
    Try(FromTokenizerError(consume(r1.s)), LAMBDA r2 :
        IF r2.val = None THEN Panic("a semicolon ;", r2.s)
        ELSE IF Unwrap(r2.val).data = Symbol("Semi") THEN Ok(<<"Expr", r1.val>>, r2.s)
        ELSE Err(UnexpectedToken(Unwrap(r2.val)), r2.s)))

\* parse_statement, the arms of a keyword token tok
parse_statement_keyword(p, tok) ==
    CASE tok.data[2] = "Exit" -> parse_statement_exit(p)
      [] tok.data[2] = "Let" -> parse_statement_let(p)
      [] tok.data[2] = "If" -> map_StatementExpr(Call("parse_if", p))
      [] tok.data[2] = "Loop" -> map_StatementExpr(Call("parse_loop", p))
      [] tok.data[2] = "While" -> map_StatementExpr(Call("parse_while", p))
      [] tok.data[2] = "Break" -> parse_statement_jump(p, <<"Break">>)
      [] tok.data[2] = "Continue" -> parse_statement_jump(p, <<"Continue">>)
      [] tok.data[2] = "Return" -> parse_statement_return(p)
      [] OTHER -> Err(UnexpectedToken(tok), p)

\* Parser::parse_statement
parse_statement(p) ==
    Try(FromTokenizerError(peek(p)), LAMBDA r0 :
        IF r0.val = None THEN Panic("a token", r0.s)
        ELSE IF Unwrap(r0.val).data[1] = "Keyword"
        THEN parse_statement_keyword(r0.s, Unwrap(r0.val))
        ELSE IF Unwrap(r0.val).data = Symbol("LBrace")
        THEN map_StatementExpr(Call("parse_block", r0.s))
        ELSE parse_statement_expr(r0.s))

\* Parser::parse_expression
parse_expression(p) == Call("parse_assign_expr", p)

\* the compound-assignment symbols of parse_assign_expr and their Expr variants
AssignVariant(data) ==
    CASE data = Symbol("PlusEq") -> "AddAssign"
      [] data = Symbol("MinusEq") -> "SubAssign"
      [] data = Symbol("StarEq") -> "MulAssign"
      [] data = Symbol("SlashEq") -> "DivAssign"
      [] data = Symbol("PercentEq") -> "ModAssign"
      [] OTHER -> ""

\* parse_assign_expr, the arms of a compound-assignment symbol: consume the
\* identifier and the symbol, then the value
parse_assign_expr_value(p, identifier, variant) ==
    Try(FromTokenizerError(consume(p)), LAMBDA r2 :
    Try(FromTokenizerError(consume(r2.s)), LAMBDA r3 :
    Try(Call("parse_expression", r3.s), LAMBDA r4 :
    Ok(<<variant, identifier, r4.val>>, r4.s))))

\* Parser::parse_assign_expr
parse_assign_expr(p) ==
    Try(FromTokenizerError(peek(p)), LAMBDA r0 :
        IF r0.val = None THEN Panic("a token", r0.s)
        ELSE IF Unwrap(r0.val).data[1] # "Identifier"
        THEN Call("parse_expression_cmp_part", r0.s)
        ELSE Try(FromTokenizerError(peek_ahead(r0.s, 1)), LAMBDA r1 :
             IF r1.val = None THEN Panic("an operator", r1.s)
             ELSE IF AssignVariant(Unwrap(r1.val).data) = ""
             THEN Call("parse_expression_cmp_part", r1.s)
             ELSE parse_assign_expr_value(r1.s, Unwrap(r0.val).data[2],
                                          AssignVariant(Unwrap(r1.val).data))))

\* the comparison symbols of parse_expression_cmp_part and their Expr variants
CmpVariant(data) ==
    CASE data = Symbol("Equality") -> "Equality"
      [] data = Symbol("NonEquality") -> "NonEquality"
      [] data = Symbol("LAngle") -> "Less"
      [] data = Symbol("LesserEqual") -> "LessEq"
      [] data = Symbol("RAngle") -> "Greater"
      [] data = Symbol("GreaterEqual") -> "GreaterEq"
      [] OTHER -> ""

\* if let Some(Token { data, location: _ }) = self.peek()?: the data of the
\* peeked token r.val, or a data no symbol has
PeekedData(r) == IF r.val = None THEN <<"", "">> ELSE Unwrap(r.val).data

\* parse_expression_cmp_part with a comparison for its right operand
parse_expression_cmp_part_chained(p) ==
    Try(Call("parse_expression_add_part", p), LAMBDA r0 :
    Try(FromTokenizerError(peek(r0.s)), LAMBDA r1 :
        IF CmpVariant(PeekedData(r1)) = "" THEN Ok(r0.val, r1.s)
        ELSE Try(FromTokenizerError(consume(r1.s)), LAMBDA r2 :
             Try(Call("parse_expression_cmp_part", r2.s), LAMBDA r3 :
             Ok(<<CmpVariant(PeekedData(r1)), r0.val, r3.val>>, r3.s)))))

\* Parser::parse_expression_cmp_part
parse_expression_cmp_part(p) ==
    Try(Call("parse_expression_add_part", p), LAMBDA r0 :
    Try(FromTokenizerError(peek(r0.s)), LAMBDA r1 :
        IF CmpVariant(PeekedData(r1)) = "" THEN Ok(r0.val, r1.s)
        ELSE Try(FromTokenizerError(consume(r1.s)), LAMBDA r2 :
             Try(Call("parse_expression_add_part", r2.s), LAMBDA r3 :
             Ok(<<CmpVariant(PeekedData(r1)), r0.val, r3.val>>, r3.s)))))

\* the additive symbols of parse_expression_add_part and their Expr variants
AddVariant(data) ==
    CASE data = Symbol("Plus") -> "Add"
      [] data = Symbol("Minus") -> "Sub"
      [] OTHER -> ""

\* parse_expression_add_part without the fixup of the tail: the tree of the
\* right-first recursion as it is
parse_expression_add_part_right(p) ==
    Try(Call("parse_expression_mul_part", p), LAMBDA r0 :
    Try(FromTokenizerError(peek(r0.s)), LAMBDA r1 :
        IF AddVariant(PeekedData(r1)) = "" THEN Ok(r0.val, r1.s)
        ELSE Try(FromTokenizerError(consume(r1.s)), LAMBDA r2 :
             Try(Call("parse_expression_add_part", r2.s), LAMBDA r3 :
             Ok(<<AddVariant(PeekedData(r1)), r0.val, r3.val>>, r3.s)))))

\* Parser::parse_expression_add_part
parse_expression_add_part(p) ==
    Try(Call("parse_expression_mul_part", p), LAMBDA r0 :
    Try(FromTokenizerError(peek(r0.s)), LAMBDA r1 :
        IF AddVariant(PeekedData(r1)) = "" THEN Ok(r0.val, r1.s)
        ELSE Try(FromTokenizerError(consume(r1.s)), LAMBDA r2 :
             Try(Call("parse_expression_add_part", r2.s), LAMBDA r3 :
                 IF r3.val[1] \in {"Add", "Sub"}
                 THEN Ok(map_left(r3.val, [variant |-> AddVariant(PeekedData(r1)),
                                             expr |-> r0.val]), r3.s)
                 ELSE Ok(<<AddVariant(PeekedData(r1)), r0.val, r3.val>>, r3.s)))))

\* the multiplicative symbols of parse_expression_mul_part and their Expr variants
MulVariant(data) ==
    CASE data = Symbol("Star") -> "Mul"
      [] data = Symbol("Slash") -> "Div"
      [] data = Symbol("Percent") -> "Mod"
      [] OTHER -> ""

\* parse_expression_mul_part that takes a whole additive expression as its
\* right operand
parse_expression_mul_part_loose(p) ==
    Try(Call("parse_atom", p), LAMBDA r0 :
    Try(FromTokenizerError(peek(r0.s)), LAMBDA r1 :
        IF MulVariant(PeekedData(r1)) = "" THEN Ok(r0.val, r1.s)
        ELSE Try(FromTokenizerError(consume(r1.s)), LAMBDA r2 :
             Try(Call("parse_expression_add_part", r2.s), LAMBDA r3 :
                 Ok(<<MulVariant(PeekedData(r1)), r0.val, r3.val>>, r3.s)))))

\* Parser::parse_expression_mul_part
parse_expression_mul_part(p) ==
    Try(Call("parse_atom", p), LAMBDA r0 :
    Try(FromTokenizerError(peek(r0.s)), LAMBDA r1 :
        IF MulVariant(PeekedData(r1)) = "" THEN Ok(r0.val, r1.s)
        ELSE Try(FromTokenizerError(consume(r1.s)), LAMBDA r2 :
             Try(Call("parse_expression_mul_part", r2.s), LAMBDA r3 :
                 IF r3.val[1] \in {"Mul", "Div", "Mod"}
                 THEN Ok(map_left(r3.val, [variant |-> MulVariant(PeekedData(r1)),
                                             expr |-> r0.val]), r3.s)
                 ELSE Ok(<<MulVariant(PeekedData(r1)), r0.val, r3.val>>, r3.s)))))

\* parse_atom, arm Identifier: an identifier or a function call
parse_atom_identifier(p, ident) ==
    Try(FromTokenizerError(consume(p)), LAMBDA r1 :
    Try(FromTokenizerError(peek(r1.s)), LAMBDA r2 :
        IF r2.val # None /\ Unwrap(r2.val).data = Symbol("LParen")
        THEN Try(FromTokenizerError(consume(r2.s)), LAMBDA r3 :
             Try(Call("parse_args", r3.s), LAMBDA r4 :
             Try(expect_token(r4.s, Symbol("RParen"), "a right parenthesis )"), LAMBDA r5 :
             Ok(<<"FunctionCall", ident, r4.val>>, r5.s))))
        ELSE Ok(<<"Identifier", ident>>, r2.s)))

\* parse_atom, arm IntegerLiteral
parse_atom_literal(p, value) ==
    Try(FromTokenizerError(consume(p)), LAMBDA r1 :
    Ok(<<"IntegerLiteral", value>>, r1.s))

\* Parser::parse_atom
parse_atom(p) ==
    Try(FromTokenizerError(peek(p)), LAMBDA r0 :
        IF r0.val = None THEN Panic("a token", r0.s)
        ELSE IF Unwrap(r0.val).data[1] = "IntegerLiteral"
        THEN parse_atom_literal(r0.s, Unwrap(r0.val).data[2])
        ELSE IF Unwrap(r0.val).data[1] = "Identifier"
        THEN parse_atom_identifier(r0.s, Unwrap(r0.val).data[2])
        ELSE IF Unwrap(r0.val).data = Symbol("LBrace") THEN Call("parse_block", r0.s)
        ELSE IF Unwrap(r0.val).data = Keyword("If") THEN Call("parse_if", r0.s)
        ELSE IF Unwrap(r0.val).data = Keyword("Loop") THEN Call("parse_loop", r0.s)
        ELSE IF Unwrap(r0.val).data = Keyword("While") THEN Call("parse_while", r0.s)
        ELSE Err(UnexpectedToken(Unwrap(r0.val)), r0.s))

\* parse_args after an argument r1 has been parsed: a right parenthesis ends
\* the list and a comma continues it
parse_args_rest(r1) ==
    Try(FromTokenizerError(peek(r1.s)), LAMBDA r2 :
        IF r2.val = None THEN Panic("a comma or a right parenthesis", r2.s)
        ELSE IF Unwrap(r2.val).data = Symbol("RParen") THEN Ok(<<r1.val>>, r2.s)
        ELSE IF Unwrap(r2.val).data = Symbol("Comma")
        THEN Try(FromTokenizerError(consume(r2.s)), LAMBDA r3 :
             Try(Call("parse_args", r3.s), LAMBDA r4 :
             Ok(<<r1.val>> \o r4.val, r4.s)))
        ELSE Err(UnexpectedToken(Unwrap(r2.val)), r2.s))

\* Parser::parse_args
parse_args(p) ==
    Try(FromTokenizerError(peek(p)), LAMBDA r0 :
        IF r0.val = None THEN Panic("an identifier or a right parenthesis", r0.s)
        ELSE IF Unwrap(r0.val).data = Symbol("RParen") THEN Ok(<<>>, r0.s)
        ELSE Try(Call("parse_expression", r0.s), LAMBDA r1 : parse_args_rest(r1)))

\* the loop of Parser::parse_block
parse_block_loop(p, stmts) ==
    Try(FromTokenizerError(peek(p)), LAMBDA r0 :
        IF r0.val = None THEN Panic("a statement or right brace }", r0.s)
        ELSE IF Unwrap(r0.val).data = Symbol("RBrace")
        THEN Try(FromTokenizerError(consume(r0.s)), LAMBDA r1 :
             Ok(<<"Block", stmts>>, r1.s))
        ELSE Try(Call("parse_statement", r0.s), LAMBDA r2 :
             parse_block_loop(r2.s, Append(stmts, r2.val))))

\* Parser::parse_block
parse_block(p) ==
    Try(expect_token(p, Symbol("LBrace"), "a left brace {"), LAMBDA r0 :
    parse_block_loop(r0.s, <<>>))

\* Parser::parse_if
parse_if(p) ==
    Try(expect_token(p, Keyword("If"), "keyword if"), LAMBDA r0 :
    Try(expect_token(r0.s, Symbol("LParen"), "a left parenthesis"), LAMBDA r1 :
    Try(Call("parse_expression", r1.s), LAMBDA r2 :
    Try(expect_token(r2.s, Symbol("RParen"), "a right parenthesis"), LAMBDA r3 :
    Try(Call("parse_statement", r3.s), LAMBDA r4 :
    Try(FromTokenizerError(peek(r4.s)), LAMBDA r5 :
        IF r5.val # None /\ Unwrap(r5.val).data = Keyword("Else")
        THEN Try(FromTokenizerError(consume(r5.s)), LAMBDA r6 :
             Try(Call("parse_statement", r6.s), LAMBDA r7 :
             Ok(<<"If", r2.val, r4.val, Some(r7.val)>>, r7.s)))
        ELSE Ok(<<"If", r2.val, r4.val, None>>, r5.s)))))))

\* Parser::parse_loop
parse_loop(p) ==
    Try(expect_token(p, Keyword("Loop"), "keyword loop"), LAMBDA r0 :
    Try(Call("parse_statement", r0.s), LAMBDA r1 :
    Ok(<<"Loop", r1.val>>, r1.s)))

\* Parser::parse_while
parse_while(p) ==
    Try(expect_token(p, Keyword("While"), "keyword while"), LAMBDA r0 :
    Try(expect_token(r0.s, Symbol("LParen"), "a left parenthesis"), LAMBDA r1 :
    Try(Call("parse_expression", r1.s), LAMBDA r2 :
    Try(expect_token(r2.s, Symbol("RParen"), "a right parenthesis"), LAMBDA r3 :
    Try(Call("parse_statement", r3.s), LAMBDA r4 :
    Ok(<<"While", r2.val, r4.val>>, r4.s))))))

\* The parser's methods call one another through Call: self.method()
Call(method, p) ==
    CASE method = "parse_statement" -> parse_statement(p)
      [] method = "parse_expression" -> parse_expression(p)
      [] method = "parse_assign_expr" -> parse_assign_expr(p)
      [] method = "parse_expression_cmp_part" -> parse_expression_cmp_part(p)
      [] method = "parse_expression_add_part" -> parse_expression_add_part(p)
      [] method = "parse_expression_mul_part" -> parse_expression_mul_part(p)
      [] method = "parse_atom" -> parse_atom(p)
      [] method = "parse_args" -> parse_args(p)
      [] method = "parse_block" -> parse_block(p)
      [] method = "parse_if" -> parse_if(p)
      [] method = "parse_loop" -> parse_loop(p)
      [] method = "parse_while" -> parse_while(p)

---------------------------------------------------------------------------
(* Source texts.  A text is written as a sequence of words: a word is one  *)
(* character, or one of the multi-character lexemes spelled out below; the *)
(* words are joined with single spaces.                                    *)

Spelling ==
    ("fn" :> <<"f", "n">>) @@ ("exit" :> <<"e", "x", "i", "t">>)
    @@ ("let" :> <<"l", "e", "t">>) @@ ("mut" :> <<"m", "u", "t">>)
    @@ ("if" :> <<"i", "f">>) @@ ("else" :> <<"e", "l", "s", "e">>)
    @@ ("loop" :> <<"l", "o", "o", "p">>) @@ ("while" :> <<"w", "h", "i", "l", "e">>)
    @@ ("break" :> <<"b", "r", "e", "a", "k">>)
    @@ ("continue" :> <<"c", "o", "n", "t", "i", "n", "u", "e">>)
    @@ ("return" :> <<"r", "e", "t", "u", "r", "n">>)
    @@ ("<=" :> <<"<", "=">>) @@ (">=" :> <<">", "=">>) @@ ("==" :> <<"=", "=">>)
    @@ ("!=" :> <<"!", "=">>) @@ ("+=" :> <<"+", "=">>) @@ ("-=" :> <<"-", "=">>)
    @@ ("*=" :> <<"*", "=">>) @@ ("/=" :> <<"/", "=">>) @@ ("%=" :> <<"%", "=">>)
    @@ ("_start" :> <<"_", "s", "t", "a", "r", "t">>) @@ ("add" :> <<"a", "d", "d">>)
    @@ ("if00000000" :> <<"i", "f", "0", "0", "0", "0", "0", "0", "0", "0">>)

Chars(word) == IF Len(word) = 1 THEN <<word>> ELSE Spelling[word]

Text(words) ==
    IF words = <<>> THEN <<>>
    ELSE IF Len(words) = 1 THEN Chars(words[1])
    ELSE Chars(words[1]) \o <<" ">> \o Text(Tail(words))

---------------------------------------------------------------------------
(* type_registry.rs.  A HashMap is a function with a finite domain.        *)

EmptyMap == [k \in {} |-> 0]
Insert(map, k, v) == (k :> v) @@ map

\* register_types with an insert that keeps the entry a name already has
register_types_keep_first(program, registry) ==
    IF program = <<>> THEN registry
    ELSE LET item == Head(program)
         IN register_types_keep_first(Tail(program),
                IF item[2] \in DOMAIN registry.functions THEN registry
                ELSE [functions |-> Insert(registry.functions, item[2],
                                           [params |-> item[3]])])

\* <ast::Program as TypeHolder>::register_types, with Item's register_types
register_types(program, registry) ==
    IF program = <<>> THEN registry
    ELSE LET item == Head(program)
         IN register_types(Tail(program),
                [functions |-> Insert(registry.functions, item[2],
                                      [params |-> item[3]])])

\* impl From<&ast::Program> for TypeRegistry
TypeRegistryFrom(program) == register_types(program, [functions |-> EmptyMap])

\* TypeRegistry::get_function
get_function(registry, name) ==
    IF name \in DOMAIN registry.functions THEN Some(registry.functions[name]) ELSE None

---------------------------------------------------------------------------
(* context.rs: VariableFrame and VariableStack (a sequence of frames, the   *)
(* last one on top)                                                        *)

VariableFrameDefault == [stack_size |-> 0, variables |-> EmptyMap]
VariableFrameWithSize(size) == [stack_size |-> size, variables |-> EmptyMap]

\* match self.peek() { Some(frame) => .., None => Some(self.push(default)) }
peek_or_push(vs) == IF vs = <<>> THEN <<VariableFrameDefault>> ELSE vs

\* VariableStack::declare_variable_at; the frame is the top one, or a fresh
\* default frame when there is none
declare_variable_at(vs, name, is_mutable_, offset) ==
    [peek_or_push(vs) EXCEPT ![Len(peek_or_push(vs))].variables =
        Insert(@, name, [stack_frame_offset |-> offset, is_mutable |-> is_mutable_])]

\* VariableStack::declare_variable with the offset of the slot below the top
VariableStack_declare_variable_below(vs, name, is_mutable_) ==
    [peek_or_push(vs) EXCEPT ![Len(peek_or_push(vs))].variables =
        Insert(@, name, [stack_frame_offset |->
                             peek_or_push(vs)[Len(peek_or_push(vs))].stack_size - 1,
                         is_mutable |-> is_mutable_])]

\* VariableStack::declare_variable: the offset is the frame's current stack_size
VariableStack_declare_variable(vs, name, is_mutable_) ==
    [peek_or_push(vs) EXCEPT ![Len(peek_or_push(vs))].variables =
        Insert(@, name, [stack_frame_offset |->
                             peek_or_push(vs)[Len(peek_or_push(vs))].stack_size,
                         is_mutable |-> is_mutable_])]

\* u64 subtraction a - b on the object s: panics on overflow when the build
\* checks it (checks), else wraps
CheckedSub(a, b, checks, s) ==
    IF checks /\ a < b
    THEN Panic("attempt to subtract with overflow", s)
    ELSE Ok(a - b, s)

\* the for loop of VariableStack::get_offset over the frames from i down to 1
get_offset_loop(vs, i, acc, checks) ==
    IF i = 0 THEN Ok(None, vs)
    ELSE IF acc.name \in DOMAIN vs[i].variables
    THEN Try(CheckedSub(vs[i].stack_size,
                        vs[i].variables[acc.name].stack_frame_offset, checks, vs),
             LAMBDA d : Ok(Some(d.val + acc.offset), vs))
    ELSE get_offset_loop(vs, i - 1,
            [name |-> acc.name, offset |-> acc.offset + vs[i].stack_size], checks)

\* VariableStack::get_offset: Ok(Option<u64>), or a panic of the subtraction
get_offset(vs, name, checks) ==
    get_offset_loop(vs, Len(vs), [name |-> name, offset |-> 0], checks)

\* the for loop of VariableStack::is_mutable over the frames from i down to 1
is_mutable_loop(vs, acc) ==
    IF acc.i = 0 THEN None
    ELSE IF acc.name \in DOMAIN vs[acc.i].variables
    THEN Some(vs[acc.i].variables[acc.name].is_mutable)
    ELSE is_mutable_loop(vs, [name |-> acc.name, i |-> acc.i - 1])

\* VariableStack::is_mutable looking from the first frame up
is_mutable_outermost(vs, name) ==
    IF \E i \in 1..Len(vs) : name \in DOMAIN vs[i].variables
    THEN Some(vs[CHOOSE i \in 1..Len(vs) :
                     /\ name \in DOMAIN vs[i].variables
                     /\ \A h \in 1..(i - 1) : name \notin DOMAIN vs[h].variables]
                 .variables[name].is_mutable)
    ELSE None

\* VariableStack::is_mutable
is_mutable(vs, name) == is_mutable_loop(vs, [name |-> name, i |-> Len(vs)])

---------------------------------------------------------------------------
(* context.rs: Context.  Emitted text is a sequence of lines, each a tuple *)
(* <<mnemonic, operand, ...>>; an operand is <<"reg", r>>, <<"lit", text>> *)
(* (source text emitted verbatim), <<"num", n>> or <<"qword", n>> for      *)
(* qword [rsp + n]; a label line is <<"label", name>>.                     *)

Reg(r) == <<"reg", r>>

\* Context::new.  The record also carries the build profile of the compiler
\* (overflow_checks), which every u64 subtraction on the context consults.
ContextNew(type_registry) ==
    [stack_size |-> 0,
     variables |-> <<>>,
     label_counts |-> EmptyMap,
     label_stack |-> <<>>,
     type_registry |-> type_registry,
     overflow_checks |-> overflow_checks]

\* Context::push
Push(ctx, value) ==
    Ok(<< <<"push", value>> >>,
       [ctx EXCEPT !.stack_size = @ + 1,
                   !.variables = IF @ = <<>> THEN <<VariableFrameWithSize(1)>>
                                 ELSE [@ EXCEPT ![Len(@)].stack_size = @ + 1]])

\* Context::pop
Pop(ctx, value) ==
    Try(CheckedSub(ctx.stack_size, 1, ctx.overflow_checks, ctx), LAMBDA g :
        IF ctx.variables = <<>>
        THEN Panic("trying to pop from empty stack", [ctx EXCEPT !.stack_size = g.val])
        ELSE Try(CheckedSub(ctx.variables[Len(ctx.variables)].stack_size, 1,
                            ctx.overflow_checks, [ctx EXCEPT !.stack_size = g.val]),
                 LAMBDA f :
             Ok(<< <<"pop", value>> >>,
                [f.s EXCEPT !.variables[Len(ctx.variables)].stack_size = f.val])))

\* Context::declare_variable with every binding declared mutable
declare_variable_mutable(ctx, identifier, is_mutable_) ==
    [ctx EXCEPT !.variables = VariableStack_declare_variable(@, identifier, TRUE)]

\* Context::declare_variable
declare_variable(ctx, identifier, is_mutable_) ==
    [ctx EXCEPT !.variables = VariableStack_declare_variable(@, identifier, is_mutable_)]

\* Context::get_variable: Ok(Option<String>)
get_variable(ctx, identifier) ==
    Bind(get_offset(ctx.variables, identifier, ctx.overflow_checks), LAMBDA o :
        IF o.st = "Panic" THEN Panic(o.err[2], ctx)
        ELSE IF o.val = None THEN Ok(None, ctx)
        ELSE Bind(Push(ctx, <<"qword", Unwrap(o.val) * 8>>), LAMBDA r :
             Ok(Some(r.val), r.s)))

\* Context::set_variable without the check of is_mutable
set_variable_unchecked(ctx, identifier, value) ==
    Bind(get_offset(ctx.variables, identifier, ctx.overflow_checks), LAMBDA o :
        IF o.st = "Panic" THEN Panic(o.err[2], ctx)
        ELSE IF o.val = None THEN Err(<<"IdentifierNotDeclared", identifier>>, ctx)
        ELSE Ok(<< <<"mov", <<"qword", Unwrap(o.val) * 8>>, value>> >>, ctx))

\* Context::set_variable
set_variable(ctx, identifier, value) ==
    IF is_mutable(ctx.variables, identifier) = None
    THEN Err(<<"IdentifierNotDeclared", identifier>>, ctx)
    ELSE IF ~Unwrap(is_mutable(ctx.variables, identifier))
    THEN Err(<<"ChangedImmutableVariable", identifier>>, ctx)
    ELSE Bind(get_offset(ctx.variables, identifier, ctx.overflow_checks), LAMBDA o :
         IF o.st = "Panic" THEN Panic(o.err[2], ctx)
         ELSE IF o.val = None THEN Err(<<"IdentifierNotDeclared", identifier>>, ctx)
         ELSE Ok(<< <<"mov", <<"qword", Unwrap(o.val) * 8>>, value>> >>, ctx))

HexDigits == <<"0", "1", "2", "3", "4", "5", "6", "7", "8", "9",
               "a", "b", "c", "d", "e", "f">>
HexDigit(n, k) == HexDigits[((n \div (16 ^ k)) % 16) + 1]

\* format!("{index:08}"): the index in decimal
Dec08(n) ==
    HexDigits[((n \div 10000000) % 10) + 1] \o HexDigits[((n \div 1000000) % 10) + 1]
    \o HexDigits[((n \div 100000) % 10) + 1] \o HexDigits[((n \div 10000) % 10) + 1]
    \o HexDigits[((n \div 1000) % 10) + 1] \o HexDigits[((n \div 100) % 10) + 1]
    \o HexDigits[((n \div 10) % 10) + 1] \o HexDigits[(n % 10) + 1]

\* format!("{index:08x}")
Hex08(n) ==
    HexDigit(n, 7) \o HexDigit(n, 6) \o HexDigit(n, 5) \o HexDigit(n, 4)
    \o HexDigit(n, 3) \o HexDigit(n, 2) \o HexDigit(n, 1) \o HexDigit(n, 0)

\* self.label_counts.entry(tag).or_insert(0)
label_count(ctx, tag) ==
    IF tag \in DOMAIN ctx.label_counts THEN ctx.label_counts[tag] ELSE 0

\* Context::create_label
create_label(ctx, tag) ==
    Ok(tag \o Hex08(label_count(ctx, tag)),
       [ctx EXCEPT !.label_counts = Insert(@, tag, label_count(ctx, tag) + 1)])

\* Context::enter
enter(ctx) == Ok(<<>>, [ctx EXCEPT !.variables = Append(@, VariableFrameDefault)])

\* Context::exit
exit(ctx) ==
    IF ctx.variables = <<>> THEN Panic("trying to exit from base frame", ctx)
    ELSE Ok(<< <<"add", Reg("rsp"),
                 <<"num", ctx.variables[Len(ctx.variables)].stack_size * 8>> >> >>,
            [ctx EXCEPT !.variables = SubSeq(@, 1, Len(@) - 1)])

\* Context::enter_labelled_region
enter_labelled_region(ctx, frame) == [ctx EXCEPT !.label_stack = Append(@, frame)]

\* Context::exit_labelled_region that leaves the label stack as it is
exit_labelled_region_keep(ctx) == ctx

\* Context::exit_labelled_region
exit_labelled_region(ctx) ==
    [ctx EXCEPT !.label_stack = IF @ = <<>> THEN @ ELSE SubSeq(@, 1, Len(@) - 1)]

\* Context::get_labelled_region returning the first region entered
get_labelled_region_outermost(ctx) ==
    IF Len(ctx.label_stack) = 0 THEN None
    ELSE Some(ctx.label_stack[1])

\* Context::get_labelled_region
get_labelled_region(ctx) ==
    IF Len(ctx.label_stack) = 0 THEN None
    ELSE Some(ctx.label_stack[Len(ctx.label_stack)])

\* self.variables.peek().unwrap().stack_size += n
peek_add_stack_size(vs, n) == [vs EXCEPT ![Len(vs)].stack_size = @ + n]

\* the for_each of enter_function: declare parameter i (0-indexed) and the rest
declare_params(vs, params, i, param_count) ==
    IF i = Len(params) THEN vs
    ELSE declare_params(declare_variable_at(vs, params[i + 1].name, FALSE,
                                            param_count - i),
                        params, i + 1, param_count)

\* enter_function once the function is found: the params frame with the
\* return address and the parameters, then the variables frame
enter_function_frames(ctx, params) ==
    Try(enter(ctx), LAMBDA e1 :
    Try(enter([e1.s EXCEPT !.variables =
                  declare_params(
                      peek_add_stack_size(peek_add_stack_size(@, 1), Len(params)),
                      params, 0, Len(params))]), LAMBDA e2 :
    Ok(e1.val \o e2.val, e2.s)))

\* Context::enter_function
enter_function(ctx, name) ==
    IF get_function(ctx.type_registry, name) = None
    THEN Err(<<"FunctionNotDeclared", name>>, ctx)
    ELSE enter_function_frames(ctx, Unwrap(get_function(ctx.type_registry, name)).params)

\* Context::exit_function
exit_function(ctx) ==
    Try(exit(ctx), LAMBDA x1 :
    Try(exit(x1.s), LAMBDA x2 :
    Ok(x1.val \o << <<"mov", Reg("rbx"), <<"qword", 0>> >> >> \o x2.val
       \o << <<"push", Reg("rbx")>>, <<"ret">> >>, x2.s)))

---------------------------------------------------------------------------
(* codegen/x86.rs.  Every codegen_x86 is a Result [st, val, err, s] with   *)
(* val the emitted lines and s the Context after the call (also after an   *)
(* Err: the caller's context keeps what the failed call did to it).        *)

Line(op) == << op >>

\* Expr::prepare_binop_registers
prepare_binop_registers(ctx, a, b) ==
    Try(CodegenExpr(a, ctx), LAMBDA ra :
    Try(CodegenExpr(b, ra.s), LAMBDA rb :
    Try(Pop(rb.s, Reg("rbx")), LAMBDA p1 :
    Try(Pop(p1.s, Reg("rax")), LAMBDA p2 :
    Ok(ra.val \o rb.val \o p1.val \o p2.val, p2.s)))))

\* the three lines of a comparison arm
CmpLines(set) ==
    << <<"mov", Reg("rcx"), <<"num", 0>> >>, <<"cmp", Reg("rax"), Reg("rbx")>>,
       <<set, Reg("cl")>> >>

\* the instruction line(s) each binary arm emits between the pops and the push
BinopLines(variant) ==
    CASE variant = "Add" -> << <<"add", Reg("rax"), Reg("rbx")>> >>
      [] variant = "Sub" -> << <<"sub", Reg("rax"), Reg("rbx")>> >>
      [] variant = "Mul" -> << <<"mul", Reg("rbx")>> >>
      [] variant = "Div" -> << <<"div", Reg("rbx")>> >>
      [] variant = "Mod" -> << <<"div", Reg("rbx")>> >>
      [] variant = "Equality" -> CmpLines("sete")
      [] variant = "NonEquality" -> CmpLines("setne")
      [] variant = "Less" -> CmpLines("setl")
      [] variant = "LessEq" -> CmpLines("setle")
      [] variant = "Greater" -> CmpLines("setg")
      [] variant = "GreaterEq" -> CmpLines("setge")

\* the register each binary arm pushes
BinopResult(variant) ==
    CASE variant \in {"Add", "Sub", "Mul", "Div"} -> Reg("rax")
      [] variant = "Mod" -> Reg("rdx")
      [] OTHER -> Reg("rcx")

ArithVariants == {"Add", "Sub", "Mul", "Div", "Mod"}
CmpVariants == {"Equality", "NonEquality", "Less", "LessEq", "Greater", "GreaterEq"}
AssignVariants == {"AddAssign", "SubAssign", "MulAssign", "DivAssign", "ModAssign"}

\* Expr::codegen_x86, arms Add, Sub, Mul, Div, Mod and the six comparisons
CodegenBinop(e, ctx) ==
    Try(prepare_binop_registers(ctx, e[2], e[3]), LAMBDA r :
    Try(Push(r.s, BinopResult(e[1])), LAMBDA p :
    Ok(r.val \o BinopLines(e[1]) \o p.val, p.s)))

\* the arithmetic variant a compound assignment computes with
AssignOp(variant) ==
    CASE variant = "AddAssign" -> "Add"
      [] variant = "SubAssign" -> "Sub"
      [] variant = "MulAssign" -> "Mul"
      [] variant = "DivAssign" -> "Div"
      [] variant = "ModAssign" -> "Mod"

\* context.get_variable(&ident).ok_or(CodegenError::IdentifierNotDeclared(ident))?
get_variable_ok_or(ctx, identifier) ==
    Try(get_variable(ctx, identifier), LAMBDA g :
        IF g.val = None THEN Err(<<"IdentifierNotDeclared", identifier>>, g.s)
        ELSE Ok(Unwrap(g.val), g.s))

\* Expr::codegen_x86, arms AddAssign, SubAssign, MulAssign, DivAssign, ModAssign
CodegenAssign(e, ctx) ==
    Try(CodegenExpr(e[3], ctx), LAMBDA rv :
    Try(get_variable_ok_or(rv.s, e[2]), LAMBDA g :
    Try(Pop(g.s, Reg("rax")), LAMBDA p1 :
    Try(Pop(p1.s, Reg("rbx")), LAMBDA p2 :
    Try(set_variable(p2.s, e[2], BinopResult(AssignOp(e[1]))), LAMBDA sv :
    Ok(rv.val \o g.val \o p1.val \o p2.val
       \o BinopLines(AssignOp(e[1])) \o sv.val, sv.s))))))

\* Expr::codegen_x86, arm Identifier
CodegenIdentifier(e, ctx) == get_variable_ok_or(ctx, e[2])

\* the closure |a, b| Ok(a? + &b?) of reduce
reduce_step(a, b) ==
    IF a.st # "Ok" THEN a
    ELSE IF b.st # "Ok" THEN b
    ELSE Ok(a.val \o b.val, b.s)

\* `.map(|x| x.codegen_x86(context)).reduce(|a, b| Ok(a? + &b?))`: every element
\* is generated, in order, on the context the one before left (also after an
\* Err); the result is the first Err, else the concatenation.  acc starts as
\* Ok(String::new()), the unwrap_or of an empty sequence.
reduce_statements(stmts, ctx, acc) ==
    IF stmts = <<>> THEN [acc EXCEPT !.s = ctx]
    ELSE Bind(CodegenStatement(Head(stmts), ctx), LAMBDA b :
         IF b.st = "Panic" THEN b
         ELSE reduce_statements(Tail(stmts), b.s, reduce_step(acc, b)))

reduce_args(args, ctx, acc) ==
    IF args = <<>> THEN [acc EXCEPT !.s = ctx]
    ELSE Bind(CodegenExpr(Head(args), ctx), LAMBDA b :
         IF b.st = "Panic" THEN b
         ELSE reduce_args(Tail(args), b.s, reduce_step(acc, b)))

\* Expr::codegen_x86, arm FunctionCall
CodegenFunctionCall(e, ctx) ==
    Try(reduce_args(e[3], ctx, Ok(<<>>, ctx)), LAMBDA r :
    Ok(r.val \o Line(<<"call", e[2]>>), r.s))

\* Expr::codegen_x86, arm Block
CodegenBlock(e, ctx) ==
    Try(enter(ctx), LAMBDA e1 :
    Try(reduce_statements(e[2], e1.s, Ok(<<>>, e1.s)), LAMBDA r :
    Try(exit(r.s), LAMBDA x :
    Ok(e1.val \o r.val \o x.val, x.s))))

\* a body of an if: context.enter(), the statement, context.exit()
CodegenBranch(stmt, ctx) ==
    Try(enter(ctx), LAMBDA e1 :
    Try(CodegenStatement(stmt, e1.s), LAMBDA b :
    Try(exit(b.s), LAMBDA x :
    Ok(e1.val \o b.val \o x.val, x.s))))

\* the optional else of an if
CodegenElse(els, ctx) ==
    IF els = None THEN Ok(<<>>, ctx) ELSE CodegenBranch(Unwrap(els), ctx)

\* Expr::codegen_x86, arm If
CodegenIf(e, ctx) ==
    Try(create_label(ctx, "if"), LAMBDA if_label :
    Try(create_label(if_label.s, "else"), LAMBDA else_label :
    Try(create_label(else_label.s, "endif"), LAMBDA endif_label :
    Try(CodegenExpr(e[2], endif_label.s), LAMBDA c :
    Try(Pop(c.s, Reg("rax")), LAMBDA p :
    Try(CodegenBranch(e[3], p.s), LAMBDA b :
    Try(CodegenElse(e[4], b.s), LAMBDA els :
    Ok(Line(<<"label", if_label.val>>) \o c.val \o p.val
       \o << <<"or", Reg("rax"), Reg("rax")>>, <<"jz", else_label.val>> >>
       \o b.val
       \o << <<"jmp", endif_label.val>>, <<"label", else_label.val>> >>
       \o els.val
       \o Line(<<"label", endif_label.val>>), els.s))))))))

\* Expr::codegen_x86, arm Loop
CodegenLoop(e, ctx) ==
    Try(create_label(ctx, "loop"), LAMBDA loop_label :
    Try(create_label(loop_label.s, "endloop"), LAMBDA endloop_label :
    Try(CodegenStatement(e[2],
            enter_labelled_region(endloop_label.s,
                [start |-> loop_label.val, end |-> endloop_label.val])), LAMBDA b :
    Ok(Line(<<"label", loop_label.val>>) \o b.val
       \o << <<"jmp", loop_label.val>>, <<"label", endloop_label.val>> >>,
       exit_labelled_region(b.s)))))

\* Expr::codegen_x86, arm While
CodegenWhile(e, ctx) ==
    Try(create_label(ctx, "while"), LAMBDA while_label :
    Try(create_label(while_label.s, "endwhile"), LAMBDA endwhile_label :
    Try(CodegenExpr(e[2],
            enter_labelled_region(endwhile_label.s,
                [start |-> while_label.val, end |-> endwhile_label.val])), LAMBDA c :
    Try(Pop(c.s, Reg("rax")), LAMBDA p :
    Try(CodegenStatement(e[3], p.s), LAMBDA b :
    Ok(Line(<<"label", while_label.val>>) \o c.val \o p.val
       \o << <<"or", Reg("rax"), Reg("rax")>>, <<"jz", endwhile_label.val>> >>
       \o b.val
       \o << <<"jmp", while_label.val>>, <<"label", endwhile_label.val>> >>,
       exit_labelled_region(b.s)))))))

\* <Expr as Codegen>::codegen_x86
CodegenExpr(e, ctx) ==
    CASE e[1] \in ArithVariants \cup CmpVariants -> CodegenBinop(e, ctx)
      [] e[1] \in AssignVariants -> CodegenAssign(e, ctx)
      [] e[1] = "IntegerLiteral" -> Push(ctx, <<"lit", e[2]>>)
      [] e[1] = "Identifier" -> CodegenIdentifier(e, ctx)
      [] e[1] = "FunctionCall" -> CodegenFunctionCall(e, ctx)
      [] e[1] = "Block" -> CodegenBlock(e, ctx)
      [] e[1] = "If" -> CodegenIf(e, ctx)
      [] e[1] = "Loop" -> CodegenLoop(e, ctx)
      [] e[1] = "While" -> CodegenWhile(e, ctx)

\* Statement::codegen_x86, arm Exit
CodegenExit(stmt, ctx) ==
    Try(CodegenExpr(stmt[2], ctx), LAMBDA r :
    Try(Pop(r.s, Reg("rdi")), LAMBDA p :
    Ok(r.val \o Line(<<"mov", Reg("rax"), <<"num", 60>> >>) \o p.val
       \o Line(<<"syscall">>), p.s)))

\* Statement::codegen_x86, arm Let: the binding is declared whatever the
\* value's codegen returned
CodegenLet(stmt, ctx) ==
    Bind(CodegenExpr(stmt[3], ctx), LAMBDA r :
        IF r.st = "Panic" THEN r
        ELSE [r EXCEPT !.s = declare_variable(r.s, stmt[2], stmt[4])])

\* Statement::codegen_x86, arms Break and Continue
CodegenJump(stmt, ctx) ==
    IF get_labelled_region(ctx) = None
    THEN Panic(IF stmt[1] = "Break" THEN "can't break from current context"
               ELSE "can't continue from current context", ctx)
    ELSE Ok(Line(<<"jmp", IF stmt[1] = "Break"
                          THEN Unwrap(get_labelled_region(ctx)).end
                          ELSE Unwrap(get_labelled_region(ctx)).start>>), ctx)

\* <Statement as Codegen>::codegen_x86 with Statement::Expr popping the value
\* of its expression into rax
CodegenStatement_discarding(stmt, ctx) ==
    CASE stmt[1] = "Exit" -> CodegenExit(stmt, ctx)
      [] stmt[1] = "Expr" ->
            Try(CodegenExpr(stmt[2], ctx), LAMBDA v :
            Try(Pop(v.s, Reg("rax")), LAMBDA q :
            Ok(v.val \o q.val, q.s)))
      [] stmt[1] = "Let" -> CodegenLet(stmt, ctx)
      [] stmt[1] \in {"Break", "Continue"} -> CodegenJump(stmt, ctx)

\* <Statement as Codegen>::codegen_x86 (the file has no arm for Return)
CodegenStatement(stmt, ctx) ==
    CASE stmt[1] = "Exit" -> CodegenExit(stmt, ctx)
      [] stmt[1] = "Expr" -> CodegenExpr(stmt[2], ctx)
      [] stmt[1] = "Let" -> CodegenLet(stmt, ctx)
      [] stmt[1] \in {"Break", "Continue"} -> CodegenJump(stmt, ctx)

\* <Item as Codegen>::codegen_x86
CodegenItem(item, ctx) ==
    Try(enter_function(ctx, item[2]), LAMBDA f :
    Try(CodegenStatement(item[4], f.s), LAMBDA b :
    Try(exit_function(b.s), LAMBDA x :
    Ok(Line(<<"label", item[2]>>) \o f.val \o b.val \o x.val, x.s))))

---------------------------------------------------------------------------
(* codegen/x86.rs: Program, and lib.rs: compile *)

\* the for loop of <Program as Codegen>::codegen_x86
CodegenProgram(its, ctx, acc) ==
    IF its = <<>> THEN Ok(acc, ctx)
    ELSE Try(CodegenItem(Head(its), ctx), LAMBDA r :
         CodegenProgram(Tail(its), r.s, acc \o r.val))

\* <Program as Codegen>::codegen_x86
ProgramCodegen(program, ctx) ==
    CodegenProgram(program, ctx, Line(<<"global", "_start">>))

\* impl From<ParseError> for CompileError, From<TokenizerError> for CompileError
\* and From<CodegenError> for CompileError, applied by ? in compile
CompileErrorFrom(e) == IF e[1] = "TokenizerError" THEN e[2] ELSE e

---------------------------------------------------------------------------
(* The source texts compile is run on. *)

\* the longest chain of operands of one precedence level
MaxChain == 4

Digits == <<"1", "2", "3", "4", "5", "6", "7", "8", "9">>

AddOps == {"+", "-"}
MulOps == {"*", "/", "%"}
CmpOps == {"==", "!=", "<", "<=", ">", ">="}

\* operand i, then operator i and the rest of the chain: 1 op1 2 op2 3 ...
ChainWords(ops, i) ==
    IF i > Len(ops) THEN <<Digits[i]>>
    ELSE <<Digits[i], ops[i]>> \o ChainWords(ops, i + 1)

\* fn f ( ) exit ( <words> ) ;
InExit(words) == <<"fn", "f", "(", ")", "exit", "(">> \o words \o <<")", ";">>

\* fn f ( ) <words> ;
AsStatement(words) == <<"fn", "f", "(", ")">> \o words \o <<";">>

ChainSource(ops) == Text(InExit(ChainWords(ops, 1)))
StatementSource(ops) == Text(AsStatement(ChainWords(ops, 1)))

\* chains of 2 .. MaxChain operands joined by operators of one level
Chains ==
    UNION {[1..n -> AddOps] \cup [1..n -> MulOps] : n \in 1..(MaxChain - 1)}

\* two comparators between three operands
CmpChains == [1..2 -> CmpOps]

ImmutableSource ==
    Text(<<"let", "x", "=", "1", ";", "x", "=", "2", ";", "exit", "(", "x", ")", ";">>)

ImmutableInFunctionSource ==
    Text(<<"fn", "_start", "(", ")", "{", "let", "x", "=", "1", ";",
           "x", "+=", "2", ";", "exit", "(", "x", ")", ";", "}">>)

Programs ==
    { <<>>,
      <<"fn">>,
      <<"fn", "f">>,
      <<"fn", "f", "(", ")", "x">>,
      <<"fn", "f", "(", ")", "{", "exit", "(", "1", ")", ";">>,
      <<"fn", "f", "(", ")", "{", "@">>,
      <<"fn", "f", "(", ")", "exit", "(", ";", "fn", "g", "(", ")", "exit", "(", "1", ")", ";">>,
      <<"exit", "(", "1", ")", ";">>,
      <<"fn", "_start", "(", ")", "{", "let", "mut", "x", "=", "1", ";",
        "x", "+=", "2", ";", "exit", "(", "x", ")", ";", "}">>,
      <<"fn", "add", "(", "a", ",", "b", ")", "{", "exit", "(", "a", "+", "b", ")", ";", "}",
        "fn", "_start", "(", ")", "{", "exit", "(", "add", "(", "2", ",", "3", ")", ")", ";", "}">>,
      <<"fn", "f", "(", ")", "{", "loop", "{", "break", ";", "}", "break", ";", "}">>,
      <<"fn", "f", "(", ")", "exit", "(", "g", "(", ")", ")", ";">>,
      <<"fn", "f", "(", ")", "exit", "(", "1", ")", ";",
        "fn", "f", "(", ")", "exit", "(", "1", ")", ";">>,
      <<"fn", "if00000000", "(", ")", "if", "(", "1", ")", "exit", "(", "1", ")", ";">>,
      <<"fn", "f", "(", ")", "exit", "(", "f", "(", ")", ")", ";">>,
      <<"fn", "f", "(", ")", "exit", "(", "{", "}", ")", ";">>,
      <<"fn", "f", "(", ")", "exit", "(", "f", "(", "1", ")", ")", ";">>,
      <<"fn", "f", "(", ")", "if", "(", "1", ")", "exit", "(", "1", ")", ";",
        "fn", "g", "(", ")", "if", "(", "1", ")", "exit", "(", "1", ")", ";",
        "else", "loop", "break", ";">> }

\* operators of the three levels: additive, multiplicative, comparison
MixOps == {"+", "-", "*", "%", "<"}

\* chains of 3 .. MaxChain operands joined by operators of any level, with at
\* most one comparator
MixedChains ==
    {ops \in UNION {[1..n -> MixOps] : n \in 2..(MaxChain - 1)} :
        Cardinality({i \in DOMAIN ops : ops[i] = "<"}) <= 1}

\* the expressions whose grouping shows the precedence of the levels, with
\* identifiers, and compound assignments of a whole expression
PrecedenceBodies ==
    { InExit(<<"a", "+", "b", "*", "c">>),
      InExit(<<"a", "*", "b", "+", "c">>),
      InExit(<<"a", "+", "b", "<", "c", "*", "d">>),
      AsStatement(<<"x", "+=", "1", "+", "2", "*", "3">>),
      AsStatement(<<"x", "*=", "1", "<", "2", "-", "3">>),
      AsStatement(<<"x", "-=", "y", "%=", "2", "+", "3">>) }

Sources ==
    {ChainSource(ops) : ops \in Chains \cup CmpChains \cup MixedChains}
    \cup {Text(words) : words \in PrecedenceBodies}
    \cup {StatementSource(ops) : ops \in CmpChains}
    \cup {Text(words) : words \in Programs}
    \cup {ImmutableSource, ImmutableInFunctionSource}

---------------------------------------------------------------------------
(* lib.rs: compile, from the source text to the generated code *)

Init ==
    /\ source \in Sources
    /\ overflow_checks \in BOOLEAN
    /\ pc = "parsing"
    /\ tree = <<>>
    /\ context = <<>>
    /\ code = <<>>
    /\ result = <<>>
    /\ last = <<>>
    /\ calls = 0
    /\ stream = <<>>
    /\ lexed = <<>>
    /\ labels = <<>>
    /\ parser = <<>>
    /\ machine = <<>>

\* let tokens = source_code.tokenize(); let tree = Parser::new(tokens).parse()?;
Parsing ==
    /\ pc = "parsing"
    /\ tree' = parse(ParserNew(tokenize(source)))
    /\ IF tree'.st = "Ok"
       THEN pc' = "registering types" /\ result' = result
       ELSE /\ pc' = "failed"
            /\ result' = [st |-> tree'.st, err |-> CompileErrorFrom(tree'.err)]
    /\ UNCHANGED <<source, context, code, last, calls, overflow_checks, stream, lexed, labels, parser, machine>>

\* let type_checker = TypeRegistry::from(&tree); let mut context = Context::new(..);
RegisteringTypes ==
    /\ pc = "registering types"
    /\ context' = ContextNew(TypeRegistryFrom(tree.val))
    /\ pc' = "codegen"
    /\ UNCHANGED <<source, tree, code, result, last, calls, overflow_checks, stream, lexed, labels, parser, machine>>

\* let generated_code = tree.codegen_x86(&mut context)?;
Codegen ==
    /\ pc = "codegen"
    /\ LET r == ProgramCodegen(tree.val, context)
       IN /\ context' = r.s
          /\ IF r.st = "Ok"
             THEN pc' = "writing" /\ code' = r.val /\ result' = [st |-> "Ok", err |-> <<>>]
             ELSE /\ pc' = "failed"
                  /\ code' = code
                  /\ result' = [st |-> r.st, err |-> CompileErrorFrom(r.err)]
    /\ UNCHANGED <<source, tree, last, calls, overflow_checks, stream, lexed, labels, parser, machine>>

Next == Parsing \/ RegisteringTypes \/ Codegen

Spec == Init /\ [][Next]_vars

---------------------------------------------------------------------------
(* codegen/x86.rs on one Context: the calls codegen_x86 makes one after the *)
(* other on the &mut Context of a compile.  enter_function and              *)
(* exit_function bracket a function as <Item as Codegen>::codegen_x86 does; *)
(* between them statements and expressions are generated in sequence on    *)
(* the context the one before left, also after an Err, as the reduce of a  *)
(* block does.  result accumulates the outcomes as reduce does, last       *)
(* records the latest call: its node, the context before it and its result *)
(* (whose s is the context after it).                                      *)

MaxCalls == 2

Lit1 == <<"IntegerLiteral", "1">>

\* the program the type registry is built from: fn f(a) {} fn h() {}
RegistryProgram ==
    << <<"Function", "f", <<[name |-> "a"]>>, <<"Expr", <<"Block", <<>> >> >> >>,
       <<"Function", "h", <<>>, <<"Expr", <<"Block", <<>> >> >> >> >>

\* the functions entered: f and h are declared, g is not
FunctionNames == {"f", "h", "g"}

Exprs ==
    { Lit1,
      <<"Identifier", "x">>,
      <<"Add", Lit1, Lit1>>,
      <<"Less", Lit1, Lit1>>,
      <<"AddAssign", "x", Lit1>>,
      <<"SubAssign", "a", <<"Identifier", "y">> >>,
      <<"MulAssign", "z", Lit1>>,
      <<"ModAssign", "x", <<"Block", <<>> >> >>,
      <<"FunctionCall", "h", <<>> >>,
      <<"FunctionCall", "f", <<Lit1, Lit1>> >>,
      <<"FunctionCall", "g", <<>> >>,
      <<"Block", <<>> >>,
      <<"Block", << <<"Let", "x", Lit1, FALSE>> >> >>,
      <<"If", Lit1, <<"Expr", Lit1>>, None>>,
      <<"If", Lit1, <<"Expr", Lit1>>, Some(<<"Expr", Lit1>>)>>,
      <<"Loop", <<"Break">> >>,
      <<"While", Lit1, <<"Continue">> >>,
      <<"Loop", <<"Expr", <<"Identifier", "y">> >> >> }

Stmts ==
    { <<"Let", "x", Lit1, FALSE>>,
      <<"Let", "x", Lit1, TRUE>>,
      <<"Break">>,
      <<"Continue">>,
      <<"Exit", <<"Identifier", "x">> >> }
    \cup { <<"Expr", e>> : e \in Exprs }

InitGen ==
    /\ source = <<>>
    /\ tree = <<>>
    /\ overflow_checks \in BOOLEAN
    /\ context = ContextNew(TypeRegistryFrom(RegistryProgram))
    /\ pc = "top"
    /\ code = <<>>
    /\ result = [st |-> "Ok", err |-> <<>>]
    /\ last = <<>>
    /\ calls = 0
    /\ stream = <<>>
    /\ lexed = <<>>
    /\ labels = <<>>
    /\ parser = <<>>
    /\ machine = <<>>

\* code += &context.enter_function(name)?;
EnterFunction ==
    /\ pc = "top"
    /\ \E name \in FunctionNames :
          LET r == enter_function(context, name)
          IN /\ context' = r.s
             /\ IF r.st = "Ok"
                THEN pc' = "body" /\ result' = result
                ELSE pc' = "failed" /\ result' = [st |-> r.st, err |-> r.err]
    /\ UNCHANGED <<source, tree, code, last, calls, overflow_checks, stream, lexed, labels, parser, machine>>

\* the outcome of a call r after the outcomes acc of the calls before it
Accumulate(acc, r) ==
    IF acc.st # "Ok" THEN acc ELSE [st |-> r.st, err |-> r.err]

\* stmt.codegen_x86(context)
GenStatement ==
    /\ pc = "body"
    /\ calls < MaxCalls
    /\ \E stmt \in Stmts :
          LET r == CodegenStatement(stmt, context)
          IN /\ context' = r.s
             /\ last' = [kind |-> "Statement", node |-> stmt, pre |-> context, res |-> r]
             /\ result' = Accumulate(result, r)
             /\ pc' = IF r.st = "Panic" THEN "aborted" ELSE pc
    /\ calls' = calls + 1
    /\ UNCHANGED <<source, tree, code, overflow_checks, stream, lexed, labels, parser, machine>>

\* expr.codegen_x86(context)
GenExpr ==
    /\ pc = "body"
    /\ calls < MaxCalls
    /\ \E e \in Exprs :
          LET r == CodegenExpr(e, context)
          IN /\ context' = r.s
             /\ last' = [kind |-> "Expr", node |-> e, pre |-> context, res |-> r]
             /\ result' = Accumulate(result, r)
             /\ pc' = IF r.st = "Panic" THEN "aborted" ELSE pc
    /\ calls' = calls + 1
    /\ UNCHANGED <<source, tree, code, overflow_checks, stream, lexed, labels, parser, machine>>

\* code += &context.exit_function()?; reached when the body returned Ok
ExitFunction ==
    /\ pc = "body"
    /\ result.st = "Ok"
    /\ LET r == exit_function(context)
       IN /\ context' = r.s
          /\ IF r.st = "Ok"
             THEN pc' = "top" /\ result' = result
             ELSE pc' = "aborted" /\ result' = [st |-> r.st, err |-> r.err]
    /\ UNCHANGED <<source, tree, code, last, calls, overflow_checks, stream, lexed, labels, parser, machine>>

NextGen == EnterFunction \/ GenStatement \/ GenExpr \/ ExitFunction

SpecGen == InitGen /\ [][NextGen]_vars

---------------------------------------------------------------------------
(* Properties of the parser, stated on compile *)

\* the Expr variant of an operator word
OpVariant(op) ==
    CASE op = "+" -> "Add" [] op = "-" -> "Sub"
      [] op = "*" -> "Mul" [] op = "/" -> "Div" [] op = "%" -> "Mod"

\* the Symbol of a comparator word
ComparatorSymbol(op) ==
    CASE op = "==" -> "Equality" [] op = "!=" -> "NonEquality"
      [] op = "<" -> "LAngle" [] op = "<=" -> "LesserEqual"
      [] op = ">" -> "RAngle" [] op = ">=" -> "GreaterEqual"

\* ((1 op1 2) op2 3) ... op(n) (n+1)
LeftAssociative(ops, n) ==
    IF n = 0 THEN <<"IntegerLiteral", Digits[1]>>
    ELSE <<OpVariant(ops[n]), LeftAssociative(ops, n - 1),
           <<"IntegerLiteral", Digits[n + 1]>> >>

\* the Program of fn f ( ) exit ( e ) ;
ExitProgram(e) == << <<"Function", "f", <<>>, <<"Exit", e>> >> >>

Parsed == pc # "parsing"
Ended == pc \in {"failed", "writing"}

\* C1: a chain of three operands joined by two operators of one precedence
\* level (both of + -, or both of * / %) parses to the left-associative tree
\* (1 OP1 2) OP2 3; in particular 1 - 2 - 3 parses to Sub(Sub(1, 2), 3).
C1_ThreeOperandChainLeftAssociative ==
    \A ops \in [1..2 -> AddOps] \cup [1..2 -> MulOps] :
        (Parsed /\ source = ChainSource(ops)) =>
            /\ tree.st = "Ok"
            /\ tree.val = ExitProgram(
                   <<OpVariant(ops[2]),
                     <<OpVariant(ops[1]), <<"IntegerLiteral", "1">>,
                                          <<"IntegerLiteral", "2">> >>,
                     <<"IntegerLiteral", "3">> >>)

\* C1, its case: exit(1 - 2 - 3) has been parsed to Sub(Sub(1, 2), 3)
C1_Witness ==
    /\ Parsed
    /\ source = ChainSource(<<"-", "-">>)
    /\ tree.st = "Ok"
    /\ tree.val[1][4][2][1] = "Sub"
    /\ tree.val[1][4][2][2] = <<"Sub", <<"IntegerLiteral", "1">>,
                                        <<"IntegerLiteral", "2">> >>

\* C2: every chain of n >= 2 operands joined by operators of one precedence
\* level parses to the left-associative tree ((1 op1 2) op2 3) ... op(n-1) n.
C2_EveryChainLeftAssociative ==
    \A ops \in Chains :
        (Parsed /\ source = ChainSource(ops)) =>
            /\ tree.st = "Ok"
            /\ tree.val = ExitProgram(LeftAssociative(ops, Len(ops)))

\* C7: Parser::parse ends in Ok(Program), Err(UnexpectedToken(t)) or
\* Err(TokenizerError) and in no other way: it never aborts, also when the
\* input ends in the middle of a construct.
C7_ParseEndsInOkOrParseError ==
    Parsed =>
        \/ tree.st = "Ok"
        \/ tree.st = "Err" /\ tree.err[1] \in {"UnexpectedToken", "TokenizerError"}

\* the index of the token that follows the words, one space after them
IndexAfter(words) == Len(Text(words)) + 1

\* C8: a comparison takes at most one comparator: 1 CMP1 2 CMP2 3, as the
\* argument of exit( ) or as a statement, is rejected with UnexpectedToken
\* carrying the second comparator (the token CMP2 at its place in the text),
\* and no tree with two comparison nodes is built.
C8_OneComparatorPerComparison ==
    \A ops \in CmpChains :
        /\ (Parsed /\ source = ChainSource(ops)) =>
              /\ tree.st = "Err"
              /\ tree.err =
                   UnexpectedToken(Token(Symbol(ComparatorSymbol(ops[2])),
                       [index |-> IndexAfter(<<"fn", "f", "(", ")", "exit", "(",
                                               "1", ops[1], "2">>),
                        line |-> 1,
                        column |-> 1 + IndexAfter(<<"fn", "f", "(", ")", "exit", "(",
                                                    "1", ops[1], "2">>)]))
        /\ (Parsed /\ source = StatementSource(ops)) =>
              /\ tree.st = "Err"
              /\ tree.err =
                   UnexpectedToken(Token(Symbol(ComparatorSymbol(ops[2])),
                       [index |-> IndexAfter(<<"fn", "f", "(", ")", "1", ops[1], "2">>),
                        line |-> 1,
                        column |-> 1 + IndexAfter(<<"fn", "f", "(", ")",
                                                    "1", ops[1], "2">>)]))

\* C8, its case: exit(1 < 2 < 3); has been rejected at the second <
C8_Witness ==
    /\ pc = "failed"
    /\ source = ChainSource(<<"<", "<">>)
    /\ result.st = "Err"
    /\ result.err[1] = "UnexpectedToken"
    /\ result.err[2].data = Symbol("LAngle")

\* C9 as stated: compile of let x = 1; x = 2; exit(x); fails with
\* ChangedImmutableVariable("x").
C9_ImmutableSourceChangedImmutableVariable ==
    (Ended /\ source = ImmutableSource) =>
        /\ result.st = "Err"
        /\ result.err = <<"ChangedImmutableVariable", "x">>

\* C9 as amended: compile of let x = 1; x = 2; exit(x); fails in the parser
\* with UnexpectedToken carrying the let keyword at index 0 (the top level
\* takes fn items only); the same binding changed by a compound assignment
\* inside a function, fn _start() { let x = 1; x += 2; exit(x); }, fails with
\* ChangedImmutableVariable("x").
C9_ImmutableSourceUnexpectedToken ==
    /\ (Ended /\ source = ImmutableSource) =>
          /\ result.st = "Err"
          /\ result.err = UnexpectedToken(Token(Keyword("Let"), LocationDefault))
    /\ (Ended /\ source = ImmutableInFunctionSource) =>
          /\ result.st = "Err"
          /\ result.err = <<"ChangedImmutableVariable", "x">>

\* C9, its case: compile of let x = 1; x = 2; exit(x); has failed
C9_Witness ==
    /\ pc = "failed"
    /\ source = ImmutableSource
    /\ result.st = "Err"

\* the word of a binary variant
WordOf(variant) ==
    CASE variant = "Add" -> "+" [] variant = "Sub" -> "-"
      [] variant = "Mul" -> "*" [] variant = "Div" -> "/" [] variant = "Mod" -> "%"
      [] variant = "Less" -> "<"

\* the precedence level of the root of an expression: 0 an atom, 1 * / %,
\* 2 + -, 3 a comparison, 4 a compound assignment
Level(e) ==
    CASE e[1] \in {"Mul", "Div", "Mod"} -> 1
      [] e[1] \in {"Add", "Sub"} -> 2
      [] e[1] \in CmpVariants -> 3
      [] e[1] \in AssignVariants -> 4
      [] OTHER -> 0

\* every * / % node has atoms and * / % nodes below it, every + - node and
\* every comparison node has nothing looser than + - below it
Stratified(e) ==
    CASE Level(e) = 0 -> TRUE
      [] Level(e) = 4 -> Stratified(e[3])
      [] OTHER -> /\ Level(e[2]) <= (IF Level(e) = 1 THEN 1 ELSE 2)
                  /\ Level(e[3]) <= (IF Level(e) = 1 THEN 1 ELSE 2)
                  /\ Stratified(e[2])
                  /\ Stratified(e[3])

\* the words of an expression of literals, identifiers and binary nodes, left
\* to right
InOrder(e) ==
    IF Level(e) = 0 THEN <<e[2]>>
    ELSE InOrder(e[2]) \o <<WordOf(e[1])>> \o InOrder(e[3])

Lit(d) == <<"IntegerLiteral", d>>
Var(n) == <<"Identifier", n>>

\* the Program of fn f ( ) e ;
StatementProgram(e) == << <<"Function", "f", <<>>, <<"Expr", e>> >> >>

\* C17: * / % bind tighter than + -, which bind tighter than a comparison,
\* which binds tighter than a compound assignment: in the tree of a chain of
\* operands joined by operators of any levels every * / % group lies below the
\* + - node next to it and every + - group below the comparison node, the
\* operands staying in the order of the text; a + b * c is Add(a, Mul(b, c)),
\* a * b + c is Add(Mul(a, b), c), a + b < c * d is Less(Add(a, b), Mul(c, d));
\* and the value of x OP= e is the whole expression that follows.
C17_PrecedenceOfLevels ==
    /\ \A ops \in MixedChains :
          (Parsed /\ source = ChainSource(ops)) =>
              /\ tree.st = "Ok"
              /\ tree.val[1][4][1] = "Exit"
              /\ Stratified(tree.val[1][4][2])
              /\ InOrder(tree.val[1][4][2]) = ChainWords(ops, 1)
    /\ (Parsed /\ source = Text(InExit(<<"a", "+", "b", "*", "c">>))) =>
          tree.val = ExitProgram(<<"Add", Var("a"), <<"Mul", Var("b"), Var("c")>> >>)
    /\ (Parsed /\ source = Text(InExit(<<"a", "*", "b", "+", "c">>))) =>
          tree.val = ExitProgram(<<"Add", <<"Mul", Var("a"), Var("b")>>, Var("c")>>)
    /\ (Parsed /\ source = Text(InExit(<<"a", "+", "b", "<", "c", "*", "d">>))) =>
          tree.val = ExitProgram(<<"Less", <<"Add", Var("a"), Var("b")>>,
                                           <<"Mul", Var("c"), Var("d")>> >>)
    /\ (Parsed /\ source = Text(AsStatement(<<"x", "+=", "1", "+", "2", "*", "3">>))) =>
          tree.val = StatementProgram(
              <<"AddAssign", "x", <<"Add", Lit("1"), <<"Mul", Lit("2"), Lit("3")>> >> >>)
    /\ (Parsed /\ source = Text(AsStatement(<<"x", "*=", "1", "<", "2", "-", "3">>))) =>
          tree.val = StatementProgram(
              <<"MulAssign", "x", <<"Less", Lit("1"), <<"Sub", Lit("2"), Lit("3")>> >> >>)
    /\ (Parsed /\ source = Text(AsStatement(<<"x", "-=", "y", "%=", "2", "+", "3">>))) =>
          tree.val = StatementProgram(
              <<"SubAssign", "x", <<"ModAssign", "y", <<"Add", Lit("2"), Lit("3")>> >> >>)

\* C17, its case: exit(1 * 2 + 3 < 4) has been parsed, the comparison at the
\* root, the sum left of it and the product left in the sum
C17_Witness ==
    /\ Parsed
    /\ source = ChainSource(<<"*", "+", "<">>)
    /\ tree.st = "Ok"
    /\ tree.val[1][4][2][1] = "Less"
    /\ tree.val[1][4][2][2] = <<"Add", <<"Mul", Lit("1"), Lit("2")>>, Lit("3")>>

---------------------------------------------------------------------------
(* Properties of the code generator, stated on the latest codegen_x86 call *)

RECURSIVE InnermostBinding(_, _, _)

\* a codegen_x86 call has been made
Called == calls > 0

\* the latest call was expr.codegen_x86 and returned Ok
ExprSucceeded == Called /\ last.kind = "Expr" /\ last.res.st = "Ok"

\* the stack_size of the current (top) frame of a context
FrameSize(ctx) ==
    IF ctx.variables = <<>> THEN 0 ELSE ctx.variables[Len(ctx.variables)].stack_size

\* the binding of name in the innermost frame that declares it, looking from
\* frame i down to the first, or None
InnermostBinding(vs, name, i) ==
    IF i = 0 THEN None
    ELSE IF name \in DOMAIN vs[i].variables THEN Some(vs[i].variables[name])
    ELSE InnermostBinding(vs, name, i - 1)

\* a line mov qword [rsp + n], reg
IsStore(line) == line[1] = "mov" /\ line[2][1] = "qword"

\* the lines hold a store, or a call
HasStore(lines) == \E i \in 1..Len(lines) : IsStore(lines[i])
HasCall(lines) == \E i \in 1..Len(lines) : lines[i][1] = "call"
HasJump(lines) == \E i \in 1..Len(lines) : lines[i][1] = "jmp"

\* C3: a successful codegen_x86 of an expression of any variant raises the
\* global stack_size and the current frame's stack_size by exactly 1.
C3_EveryExprRaisesStackByOne ==
    ExprSucceeded =>
        /\ last.res.s.stack_size = last.pre.stack_size + 1
        /\ FrameSize(last.res.s) = FrameSize(last.pre) + 1

\* C4: after a successful codegen_x86 of a block the global stack_size and
\* the enclosing frame's stack_size are what they were before the block.
C4_BlockLeavesStackUnchanged ==
    (ExprSucceeded /\ last.node[1] = "Block") =>
        /\ last.res.s.stack_size = last.pre.stack_size
        /\ FrameSize(last.res.s) = FrameSize(last.pre)

\* the latest call was codegen_x86 of a compound assignment
AssignCalled == Called /\ last.kind = "Expr" /\ last.node[1] \in AssignVariants

\* the codegen of the value of the latest compound assignment, on the
\* context the assignment was called on
ValueCodegen == CodegenExpr(last.node[3], last.pre)

\* the binding the target of the latest compound assignment resolves to,
\* once its value has been generated
TargetBinding ==
    InnermostBinding(ValueCodegen.s.variables, last.node[2],
                     Len(ValueCodegen.s.variables))

JumpCalled ==
    Called /\ last.kind = "Statement" /\ last.node[1] \in {"Break", "Continue"}

\* C6: codegen_x86 of break or continue on an empty loop-label stack fails
\* fatally, with no jmp and no text returned; and the loop-label stack is
\* empty wherever every call so far returned Ok: before any loop, after a loop
\* or a while has been generated, in a function after one that held loops.
C6_JumpOutsideLoopFails ==
    /\ (JumpCalled /\ last.pre.label_stack = <<>>) =>
          /\ last.res.st = "Panic"
          /\ last.res.val = <<>>
          /\ ~HasJump(last.res.val)
    /\ result.st = "Ok" => context.label_stack = <<>>

\* C6, its case: a break has failed after a loop or a while was generated
C6_Witness ==
    /\ JumpCalled
    /\ calls = 2
    /\ last.pre.label_stack = <<>>
    /\ last.pre.label_counts # EmptyMap
    /\ last.res.st = "Panic"

\* C10: codegen_x86 of a call of a function that is not in the type registry
\* fails with FunctionNotDeclared(name) and emits no call.
C10_CallOfUndeclaredFunctionFails ==
    (Called /\ last.kind = "Expr" /\ last.node[1] = "FunctionCall"
       /\ get_function(last.pre.type_registry, last.node[2]) = None) =>
        /\ last.res.st = "Err"
        /\ last.res.err = <<"FunctionNotDeclared", last.node[2]>>
        /\ ~HasCall(last.res.val)

---------------------------------------------------------------------------
(* tokenize.rs: a TokenStream iterated to its end, as Parser::peek_ahead   *)
(* iterates it: one call of next after the other until it returns          *)
(* Ok(None) or an Err.                                                     *)

\* the longest source text, in chars
MaxLen == 3

\* a letter (f, n: fn is a keyword), a digit, the whitespace, the chars
\* symbols are made of and a char that is in no token
LexAlphabet ==
    {"f", "n", "1", " ", "\t", "\n", "<", ">", "=", "!", "+", "-", "*", "/", "%", "@"}

LexSources == UNION {[1..n -> LexAlphabet] : n \in 0..MaxLen}

\* what a call of next returned, and the cursor of the stream after it
Lexed(r) == [st |-> r.st, val |-> r.val, err |-> r.err, end |-> r.s.location.index]

\* the stream has nothing more to give: next returned Ok(None) or an Err
LexEnded(r) == r.st # "Ok" \/ r.val = None

InitLex ==
    /\ source \in LexSources
    /\ stream = tokenize(source)
    /\ lexed = <<>>
    /\ pc = "lexing"
    /\ overflow_checks = FALSE
    /\ tree = <<>>
    /\ context = <<>>
    /\ code = <<>>
    /\ result = <<>>
    /\ last = <<>>
    /\ calls = 0
    /\ labels = <<>>
    /\ parser = <<>>
    /\ machine = <<>>

\* self.tokens.next()
LexNext ==
    /\ pc = "lexing"
    /\ stream' = TokenStreamNext(stream).s
    /\ lexed' = Append(lexed, Lexed(TokenStreamNext(stream)))
    /\ pc' = IF LexEnded(TokenStreamNext(stream)) THEN "lexed" ELSE "lexing"
    /\ UNCHANGED <<source, tree, context, code, result, last, calls,
                   overflow_checks, labels, parser, machine>>

\* self.tokens.next() called again on a stream that has returned Ok(None) or
\* an Err; last keeps the call, the cursor it started at, the call before it
\* and the number of calls so far that returned something else than Ok(None)
LexAgain ==
    /\ pc = "lexed"
    /\ calls <= MaxLen
    /\ stream' = TokenStreamNext(stream).s
    /\ last' = [res |-> Lexed(TokenStreamNext(stream)),
                from |-> stream.location.index,
                prior |-> IF last = <<>> THEN lexed[Len(lexed)] ELSE last.res,
                given |-> (IF last = <<>>
                           THEN Len(lexed) - (IF lexed[Len(lexed)].st = "Ok" THEN 1 ELSE 0)
                           ELSE last.given)
                          + (IF TokenStreamNext(stream).st = "Ok"
                                /\ TokenStreamNext(stream).val = None
                             THEN 0 ELSE 1)]
    /\ calls' = calls + 1
    /\ UNCHANGED <<source, pc, tree, context, code, result, lexed,
                   overflow_checks, labels, parser, machine>>

NextLex == LexNext \/ LexAgain

SpecLex == InitLex /\ [][NextLex]_vars

---------------------------------------------------------------------------
(* codegen/x86.rs: the expressions that create labels (if, loop, while),   *)
(* generated one after the other on one Context; labels is the set of the  *)
(* labels create_label has returned, each of which the text defines once.  *)

\* the number of if, loop and while expressions generated
MaxLabelled == 10

\* if 1 1; else if 1 1;   loop break;   while 1 continue;
LabelledExprs ==
    { <<"If", Lit1, <<"Expr", Lit1>>,
        Some(<<"Expr", <<"If", Lit1, <<"Expr", Lit1>>, None>> >>)>>,
      <<"Loop", <<"Break">> >>,
      <<"While", Lit1, <<"Continue">> >> }

\* the labels a text defines
LabelsOf(lines) == {lines[i][2] : i \in {j \in 1..Len(lines) : lines[j][1] = "label"}}

InitLabel ==
    /\ source = <<>>
    /\ tree = <<>>
    /\ overflow_checks \in BOOLEAN
    /\ context = ContextNew(TypeRegistryFrom(<<>>))
    /\ pc = "body"
    /\ code = <<>>
    /\ result = [st |-> "Ok", err |-> <<>>]
    /\ last = <<>>
    /\ calls = 0
    /\ stream = <<>>
    /\ lexed = <<>>
    /\ labels = {}
    /\ parser = <<>>
    /\ machine = <<>>

\* expr.codegen_x86(context) of an if, a loop or a while
GenLabelled ==
    /\ pc = "body"
    /\ calls < MaxLabelled
    /\ \E e \in LabelledExprs :
          /\ context' = CodegenExpr(e, context).s
          /\ last' = [kind |-> "Expr", node |-> e, pre |-> context,
                      res |-> CodegenExpr(e, context)]
          /\ labels' = labels \cup LabelsOf(CodegenExpr(e, context).val)
          /\ result' = Accumulate(result, CodegenExpr(e, context))
          /\ pc' = IF CodegenExpr(e, context).st = "Panic" THEN "aborted" ELSE pc
    /\ calls' = calls + 1
    /\ UNCHANGED <<source, tree, code, overflow_checks, stream, lexed, parser, machine>>

NextLabel == GenLabelled

SpecLabel == InitLabel /\ [][NextLabel]_vars

---------------------------------------------------------------------------
(* context.rs driven method by method: one function is entered, as         *)
(* <Item as Codegen>::codegen_x86 enters it, and the methods of Context    *)
(* are called on it one after the other; code is the text emitted so far,  *)
(* preceded by the text of a call site of the function (the arguments are  *)
(* the literals 1, 2, ... in order).                                       *)

\* the largest number of parameters of a function
MaxParams == 2

\* the number of Context methods called in the body of the function
MaxOps == 4

ParamNames == <<"a", "b", "c", "d">>
FnNames == <<"f0", "f1", "f2", "f3", "f4">>

\* fn f<n>(a, b, ...) {}
CtxFunction(n) ==
    <<"Function", FnNames[n + 1], [i \in 1..n |-> [name |-> ParamNames[i]]],
      <<"Expr", <<"Block", <<>> >> >> >>

\* the functions f0 .. f<MaxParams>
CtxProgram == [k \in 1..(MaxParams + 1) |-> CtxFunction(k - 1)]

\* the expression f<n>(1, 2, ..., n)
CallOf(n) ==
    <<"FunctionCall", FnNames[n + 1], [i \in 1..n |-> <<"IntegerLiteral", Digits[i]>>]>>

\* the names looked up in the body of f<n>: its parameters, the local x, and
\* y, which nothing declares
CtxNames(n) == {ParamNames[i] : i \in 1..n} \cup {"x", "y"}

InitCtx ==
    /\ source = <<>>
    /\ tree = <<>>
    /\ overflow_checks \in BOOLEAN
    /\ context = ContextNew(TypeRegistryFrom(CtxProgram))
    /\ pc = "top"
    /\ code = <<>>
    /\ result = [st |-> "Ok", err |-> <<>>]
    /\ last = <<>>
    /\ calls = 0
    /\ stream = <<>>
    /\ lexed = <<>>
    /\ labels = <<>>
    /\ parser = <<>>
    /\ machine = <<>>

\* the methods that open or close a frame or declare a variable
ScopeOps == {"enter_function", "enter", "exit", "let"}

\* the text a method returned, when it returned text
Emitted(r) == IF r.st = "Ok" THEN r.val ELSE <<>>

\* a method has been called on the context with outcome r and has emitted
\* text; pcOk is where the walk is when it returned Ok; last records the call,
\* the context before it, the text before it and the calls made so far that
\* open or close a frame or declare a variable, each with the number of the
\* first line it could emit
CtxCalled(op, arg, r, text, pcOk) ==
    /\ context' = r.s
    /\ last' = [op |-> op, arg |-> arg, pre |-> context, res |-> r, before |-> code,
                history |-> (IF last = <<>> THEN <<>> ELSE last.history)
                            \o (IF op \in ScopeOps
                                THEN <<[op |-> op, arg |-> arg, line |-> Len(code) + 1]>>
                                ELSE <<>>)]
    /\ code' = code \o text
    /\ result' = Accumulate(result, r)
    /\ pc' = IF r.st = "Panic" THEN "aborted" ELSE IF r.st = "Ok" THEN pcOk ELSE pc
    /\ UNCHANGED <<source, tree, overflow_checks, stream, lexed, labels, parser, machine>>

\* let mut code = format!("{name}:\n"); code += &context.enter_function(name)?;
\* reached by the call f<n>(1, .., n) of some function
CtxEnterFunction ==
    /\ pc = "top"
    /\ \E n \in 0..MaxParams :
          CtxCalled("enter_function", n, enter_function(context, FnNames[n + 1]),
                    CodegenExpr(CallOf(n), context).val
                        \o Line(<<"label", FnNames[n + 1]>>)
                        \o Emitted(enter_function(context, FnNames[n + 1])),
                    "body")
    /\ calls' = calls

\* context.push(value)
CtxPush ==
    /\ pc = "body" /\ calls < MaxOps
    /\ CtxCalled("push", <<"lit", "0">>, Push(context, <<"lit", "0">>),
                 Emitted(Push(context, <<"lit", "0">>)), "body")
    /\ calls' = calls + 1

\* context.pop(value)
CtxPop ==
    /\ pc = "body" /\ calls < MaxOps
    /\ CtxCalled("pop", Reg("rax"), Pop(context, Reg("rax")),
                 Emitted(Pop(context, Reg("rax"))), "body")
    /\ calls' = calls + 1

\* context.enter()
CtxEnter ==
    /\ pc = "body" /\ calls < MaxOps
    /\ CtxCalled("enter", <<>>, enter(context), Emitted(enter(context)), "body")
    /\ calls' = calls + 1

\* context.exit()
CtxExit ==
    /\ pc = "body" /\ calls < MaxOps
    /\ CtxCalled("exit", <<>>, exit(context), Emitted(exit(context)), "body")
    /\ calls' = calls + 1

\* Statement::Let { identifier: x, value: 1, is_mutable }.codegen_x86(context)
CtxLet ==
    /\ pc = "body" /\ calls < MaxOps
    /\ \E m \in BOOLEAN :
          CtxCalled("let", <<"x", m>>, CodegenStatement(<<"Let", "x", Lit1, m>>, context),
                    Emitted(CodegenStatement(<<"Let", "x", Lit1, m>>, context)), "body")
    /\ calls' = calls + 1

\* context.get_variable(&identifier); a miss (None) emits nothing
CtxGetVariable ==
    /\ pc = "body" /\ calls < MaxOps
    /\ \E name \in CtxNames(MaxParams) :
          CtxCalled("get_variable", name, get_variable(context, name),
                    IF get_variable(context, name).st = "Ok"
                       /\ IsSome(get_variable(context, name).val)
                    THEN Unwrap(get_variable(context, name).val) ELSE <<>>,
                    "body")
    /\ calls' = calls + 1

\* context.set_variable(&identifier, "rax")
CtxSetVariable ==
    /\ pc = "body" /\ calls < MaxOps
    /\ \E name \in CtxNames(MaxParams) :
          CtxCalled("set_variable", name, set_variable(context, name, Reg("rax")),
                    Emitted(set_variable(context, name, Reg("rax"))), "body")
    /\ calls' = calls + 1

\* code += &context.exit_function()?;
CtxExitFunction ==
    /\ pc = "body"
    /\ CtxCalled("exit_function", <<>>, exit_function(context),
                 Emitted(exit_function(context)), "done")
    /\ calls' = calls

NextCtx ==
    \/ CtxEnterFunction \/ CtxPush \/ CtxPop \/ CtxEnter \/ CtxExit
    \/ CtxLet \/ CtxGetVariable \/ CtxSetVariable \/ CtxExitFunction

SpecCtx == InitCtx /\ [][NextCtx]_vars

---------------------------------------------------------------------------
(* The stack of the x86-64 machine the emitted text runs on, for text      *)
(* without jumps.  A slot is [id, val, from]: id is the number of the line *)
(* that pushed it (0 for what the caller held before), val its content,    *)
(* from the id of the slot it was copied from, or 0.  The last slot is the *)
(* top: qword [rsp + 8*k] is the slot k below it.  rip is the address the  *)
(* last ret jumped to; fault is set by an access outside the stack, by a   *)
(* ret to something that is no return address and by a line the machine    *)
(* does not know.                                                          *)

RECURSIVE Exec(_, _, _)

Registers == {"rax", "rbx", "rcx", "rdx", "rdi"}

MachineNew ==
    [stack |-> << [id |-> 0, val |-> <<"caller">>, from |-> 0] >>,
     regs |-> [r \in Registers |-> <<"reg", r>>],
     rip |-> <<>>,
     fault |-> FALSE]

Fault(m) == [m EXCEPT !.fault = TRUE]

\* the slot at qword [rsp + n]
SlotAt(m, n) == m.stack[Len(m.stack) - (n \div 8)]

\* qword [rsp + n] is a slot of the stack
InStack(m, n) == n >= 0 /\ n % 8 = 0 /\ (n \div 8) < Len(m.stack)

MachinePush(m, k, val, from) ==
    [m EXCEPT !.stack = Append(@, [id |-> k, val |-> val, from |-> from])]

\* push <operand>
StepPush(m, k, operand) ==
    CASE operand[1] = "lit" -> MachinePush(m, k, operand, 0)
      [] operand[1] = "reg" -> MachinePush(m, k, m.regs[operand[2]], 0)
      [] operand[1] = "qword" ->
            IF InStack(m, operand[2])
            THEN MachinePush(m, k, SlotAt(m, operand[2]).val, SlotAt(m, operand[2]).id)
            ELSE Fault(m)

\* pop <register>
StepPop(m, operand) ==
    IF m.stack = <<>> THEN Fault(m)
    ELSE [m EXCEPT !.regs[operand[2]] = m.stack[Len(m.stack)].val,
                   !.stack = SubSeq(@, 1, Len(@) - 1)]

\* add rsp, <n>
StepRelease(m, n) ==
    IF n >= 0 /\ n % 8 = 0 /\ (n \div 8) <= Len(m.stack)
    THEN [m EXCEPT !.stack = SubSeq(@, 1, Len(@) - (n \div 8))]
    ELSE Fault(m)

\* mov qword [rsp + n], <register> and mov <register>, [rsp + n]
StepMov(m, dst, src) ==
    CASE dst[1] = "qword" /\ src[1] = "reg" ->
            IF InStack(m, dst[2])
            THEN [m EXCEPT !.stack[Len(m.stack) - (dst[2] \div 8)].val = m.regs[src[2]]]
            ELSE Fault(m)
      [] dst[1] = "reg" /\ src[1] = "qword" ->
            IF InStack(m, src[2])
            THEN [m EXCEPT !.regs[dst[2]] = SlotAt(m, src[2]).val]
            ELSE Fault(m)
      [] OTHER -> Fault(m)

\* ret
StepRet(m) ==
    IF m.stack = <<>> \/ m.stack[Len(m.stack)].val[1] # "return address"
    THEN Fault(m)
    ELSE [m EXCEPT !.rip = m.stack[Len(m.stack)].val,
                   !.stack = SubSeq(@, 1, Len(@) - 1)]

\* line k of the text
Step(m, k, line) ==
    CASE line[1] = "push" -> StepPush(m, k, line[2])
      [] line[1] = "pop" -> StepPop(m, line[2])
      [] line[1] = "add" /\ line[2] = Reg("rsp") -> StepRelease(m, line[3][2])
      [] line[1] = "mov" -> StepMov(m, line[2], line[3])
      [] line[1] = "call" -> MachinePush(m, k, <<"return address", k>>, 0)
      [] line[1] = "ret" -> StepRet(m)
      [] line[1] = "label" -> m
      [] OTHER -> Fault(m)

\* the machine after the lines k .. of the text
Exec(lines, k, m) ==
    IF k > Len(lines) \/ m.fault THEN m
    ELSE Exec(lines, k + 1, Step(m, k, lines[k]))

\* the machine after the whole text
Run(lines) == Exec(lines, 1, MachineNew)

\* the top slot of a machine's stack
Top(m) == m.stack[Len(m.stack)]

\* the stack holds a slot pushed by line k
Alive(m, k) == \E j \in 1..Len(m.stack) : m.stack[j].id = k

---------------------------------------------------------------------------
(* Properties of the context, stated on the latest method called on it and *)
(* on the machine that runs the text emitted so far                        *)

\* a method has been called in the body of the function
CtxActed == pc \in {"body", "done", "aborted"} /\ calls > 0

\* the number of parameters of the function entered: the arguments its call
\* site pushes before the call line
ArgCount == (CHOOSE k \in 1..Len(code) : code[k][1] = "call") - 1

\* the line of the call site that pushes argument i (0-indexed)
ArgLine(i) == i + 1

\* the number of slots above the slot that line k pushed
SlotsAbove(m, k) == Len(m.stack) - (CHOOSE j \in 1..Len(m.stack) : m.stack[j].id = k)

\* the latest call was get_variable of parameter i of the function, made
\* while the machine held the slot of argument i
ParameterRead(i) ==
    /\ CtxActed
    /\ last.op = "get_variable"
    /\ i < ArgCount
    /\ last.arg = ParamNames[i + 1]
    /\ ~Run(last.before).fault
    /\ Alive(Run(last.before), ArgLine(i))

\* C11: in the body of a function of n parameters called with its n arguments
\* pushed left to right and then call, a reference to parameter i, whatever
\* the number of local slots pushed, emits push qword [rsp + 8*k] with k the
\* number of slots above the slot that holds argument i, so that the slot
\* pushed is a copy of argument i.
C11_ParameterReferenceReadsItsArgument ==
    \A i \in 0..(MaxParams - 1) :
        ParameterRead(i) =>
            /\ last.res.st = "Ok"
            /\ last.res.val =
                 Some(Line(<<"push",
                             <<"qword", 8 * SlotsAbove(Run(last.before), ArgLine(i))>> >>))
            /\ Top(Run(code)).from = ArgLine(i)
            /\ Top(Run(code)).val = <<"lit", Digits[i + 1]>>

\* the line of the call site that pushes the return address
CallLine == ArgCount + 1

\* exit_function has returned its epilogue after a body whose last line
\* pushed a value, the machine holding the return address and the arguments
ReturnValuePushed ==
    /\ pc = "done"
    /\ last.op = "exit_function"
    /\ last.before[Len(last.before)][1] = "push"
    /\ ~Run(last.before).fault
    /\ \A k \in 1..CallLine : Alive(Run(last.before), k)

\* the value the body pushed last
ReturnValue == Top(Run(last.before)).val

\* C12: the epilogue of exit_function, run after a body that pushed a return
\* value, loads that value into rbx; after its ret control is at the return
\* address of the caller's call, the argument slots are gone, and the return
\* value is the top slot of the caller's stack.
C12_EpilogueReturnsValueOnCallerStack ==
    ReturnValuePushed =>
        /\ ~Run(code).fault
        /\ Run(code).regs["rbx"] = ReturnValue
        /\ Run(code).rip = <<"return address", CallLine>>
        /\ \A k \in 1..CallLine : ~Alive(Run(code), k)
        /\ Len(Run(code).stack) = 2
        /\ Run(code).stack[1].id = 0
        /\ Top(Run(code)).val = ReturnValue

---------------------------------------------------------------------------
(* Properties of the lexer, stated on the items next has returned *)

RECURSIVE LexAll(_, _)

\* item i is a token
IsToken(i) == lexed[i].st = "Ok" /\ lexed[i].val # None

\* the cursor before item i: the end of the item before it
StartOfItem(i) == IF i = 1 THEN 0 ELSE lexed[i - 1].end

\* the Location of the cursor after the first k chars of a text
LocationAt(text, k) ==
    [index |-> k,
     line |-> 1 + Cardinality({j \in 1..k : text[j] = "\n"}),
     column |-> 1 + k - (IF \E j \in 1..k : text[j] = "\n"
                         THEN CHOOSE j \in 1..k :
                                 text[j] = "\n" /\ \A h \in (j + 1)..k : text[h] # "\n"
                         ELSE 0)]

\* the items next returns on a stream until it ends, after the items acc
LexAll(ts, acc) ==
    IF LexEnded(TokenStreamNext(ts)) THEN Append(acc, Lexed(TokenStreamNext(ts)))
    ELSE LexAll(TokenStreamNext(ts).s, Append(acc, Lexed(TokenStreamNext(ts))))

\* C13: the tokens of a source have strictly increasing location.index, and
\* the location of a token is the cursor (index, line, column) at its first
\* character: the chars between the end of the token before it and its
\* location are whitespace, the chars from its location to its end are not.
C13_TokenLocationsIncreaseAndStartAtToken ==
    \A i \in 1..Len(lexed) :
        IsToken(i) =>
            /\ Unwrap(lexed[i].val).location =
                   LocationAt(source, Unwrap(lexed[i].val).location.index)
            /\ StartOfItem(i) <= Unwrap(lexed[i].val).location.index
            /\ Unwrap(lexed[i].val).location.index < lexed[i].end
            /\ \A j \in (StartOfItem(i) + 1)..Unwrap(lexed[i].val).location.index :
                   is_whitespace(source[j])
            /\ \A j \in (Unwrap(lexed[i].val).location.index + 1)..lexed[i].end :
                   ~is_whitespace(source[j])
            /\ \A h \in 1..(i - 1) :
                   Unwrap(lexed[h].val).location.index
                       < Unwrap(lexed[i].val).location.index

\* C13, its case: a second token has been lexed after whitespace and a newline
C13_Witness ==
    /\ Len(lexed) >= 2
    /\ IsToken(2)
    /\ Unwrap(lexed[2].val).location.index > lexed[1].end
    /\ Unwrap(lexed[2].val).location.line = 2

\* the text with the char w put in after its first p chars
InsertAt(text, p, w) == SubSeq(text, 1, p) \o <<w>> \o SubSeq(text, p + 1, Len(text))

\* the whitespace put in
Whitespace == {" ", "\t", "\n"}

\* what the items hold besides the locations: the TokenData of each token,
\* the end of the stream, the error
DataOf(items) ==
    [i \in 1..Len(items) |->
        IF items[i].st = "Ok" /\ items[i].val # None
        THEN <<"Ok", Unwrap(items[i].val).data>>
        ELSE <<items[i].st, items[i].val, items[i].err>>]

\* the lexing of the source has ended
LexDone == pc = "lexed"

\* no token of the lexed source lies on both sides of the place after its
\* first p chars, and the place is not behind the char an error is about
Boundary(p) ==
    /\ \A i \in 1..Len(lexed) :
          IsToken(i) => ~(Unwrap(lexed[i].val).location.index < p /\ p < lexed[i].end)
    /\ lexed[Len(lexed)].st = "Err" => p < lexed[Len(lexed)].end

\* C14: a space, a tab or a newline put in before the first token, after the
\* last token or between two adjacent tokens of a source leaves the sequence
\* of TokenData the lexer produces as it was, and leaves a lexing error the
\* same error.
C14_WhitespaceAtBoundariesIsIrrelevant ==
    LexDone =>
        \A p \in 0..Len(source) : \A w \in Whitespace :
            Boundary(p) =>
                DataOf(LexAll(tokenize(InsertAt(source, p, w)), <<>>)) = DataOf(lexed)

\* C14, its case: f+1 has been lexed to three tokens with nothing between them
C14_Witness ==
    /\ LexDone
    /\ source = <<"f", "+", "1">>
    /\ Len(lexed) = 4
    /\ Boundary(1) /\ Boundary(2)
    /\ DataOf(LexAll(tokenize(InsertAt(source, 1, "\t")), <<>>)) = DataOf(lexed)

\* the chars that begin a one-char symbol and, followed by =, a two-char one
Leads == {"<", ">", "=", "+", "-", "*", "/", "%"}

\* the symbol a lead alone is
LeadAlone(c) ==
    CASE c = "<" -> "LAngle" [] c = ">" -> "RAngle" [] c = "=" -> "Equals"
      [] c = "+" -> "Plus" [] c = "-" -> "Minus" [] c = "*" -> "Star"
      [] c = "/" -> "Slash" [] c = "%" -> "Percent"

\* the symbol a lead followed by = is
LeadWithEq(c) ==
    CASE c = "<" -> "LesserEqual" [] c = ">" -> "GreaterEqual" [] c = "=" -> "Equality"
      [] c = "+" -> "PlusEq" [] c = "-" -> "MinusEq" [] c = "*" -> "StarEq"
      [] c = "/" -> "SlashEq" [] c = "%" -> "PercentEq"

\* the chars of the symbol table
SymbolChars == Leads \cup {"!", "(", ")", "{", "}", ";", ","}

\* the place of the first char item i is made of: the first char after the
\* item before it that is no whitespace (0 when there is none)
FirstChar(i) ==
    IF \E j \in (StartOfItem(i) + 1)..Len(source) : ~is_whitespace(source[j])
    THEN CHOOSE j \in (StartOfItem(i) + 1)..Len(source) :
            /\ ~is_whitespace(source[j])
            /\ \A h \in (StartOfItem(i) + 1)..(j - 1) : is_whitespace(source[h])
    ELSE 0

\* the char after place q is =
EqFollows(q) == q < Len(source) /\ source[q + 1] = "="

\* item i is the symbol token sym, found at place q and ending at place e
IsSymbolAt(i, sym, q, e) ==
    /\ IsToken(i)
    /\ Unwrap(lexed[i].val).data = Symbol(sym)
    /\ Unwrap(lexed[i].val).location.index = q - 1
    /\ lexed[i].end = e

\* item i is the error UnrecognizedCharacter(c), the stream left behind c
IsUnrecognizedAt(i, c, q) ==
    /\ lexed[i].st = "Err"
    /\ lexed[i].err = <<"UnrecognizedCharacter", c>>
    /\ lexed[i].end = q

\* C15: a lead of < > = + - * / % followed at once by = is the one two-char
\* symbol and both chars are consumed; otherwise it is the one-char symbol and
\* the lead alone is consumed; != is NonEquality; ! followed by another char
\* or by the end of the input is UnrecognizedCharacter('!'); a char outside
\* the symbol table (no letter, digit, _ or whitespace) is
\* UnrecognizedCharacter(c).
C15_SymbolsLexedByLongestMatch ==
    \A i \in 1..Len(lexed) :
        FirstChar(i) # 0 =>
            LET q == FirstChar(i)
                c == source[FirstChar(i)]
            IN /\ c \in Leads =>
                     IF EqFollows(q) THEN IsSymbolAt(i, LeadWithEq(c), q, q + 1)
                     ELSE IsSymbolAt(i, LeadAlone(c), q, q)
               /\ c = "!" =>
                     IF EqFollows(q) THEN IsSymbolAt(i, "NonEquality", q, q + 1)
                     ELSE IsUnrecognizedAt(i, "!", q)
               /\ (c \notin SymbolChars /\ ~is_alphanumeric(c) /\ c # "_") =>
                     IsUnrecognizedAt(i, c, q)

\* C15, its case: <== has been lexed to LesserEqual and Equals
C15_Witness ==
    /\ LexDone
    /\ source = <<"<", "=", "=">>
    /\ IsSymbolAt(1, "LesserEqual", 1, 2)
    /\ IsSymbolAt(2, "Equals", 3, 3)

---------------------------------------------------------------------------
(* Properties of create_label, stated on the labels returned so far *)

RECURSIVE ToHex(_, _)

\* the tags create_label is called with
LabelTags == {"if", "else", "endif", "loop", "endloop", "while", "endwhile"}

LowerHexDigit(d) ==
    CASE d = 0 -> "0" [] d = 1 -> "1" [] d = 2 -> "2" [] d = 3 -> "3"
      [] d = 4 -> "4" [] d = 5 -> "5" [] d = 6 -> "6" [] d = 7 -> "7"
      [] d = 8 -> "8" [] d = 9 -> "9" [] d = 10 -> "a" [] d = 11 -> "b"
      [] d = 12 -> "c" [] d = 13 -> "d" [] d = 14 -> "e" [] d = 15 -> "f"

\* k written with width lowercase hex digits, zero-padded
ToHex(k, width) ==
    IF width = 0 THEN "" ELSE ToHex(k \div 16, width - 1) \o LowerHexDigit(k % 16)

\* the label of index k of a tag
LabelOf(tag, k) == tag \o ToHex(k, 8)

\* the tags of the labels an expression creates itself, in the order it
\* creates them
OwnTags(e) ==
    CASE e[1] = "If" -> <<"if", "else", "endif">>
      [] e[1] = "Loop" -> <<"loop", "endloop">>
      [] e[1] = "While" -> <<"while", "endwhile">>

\* the number of labels of a tag an expression creates, with the if that its
\* else may hold
Created(e, tag) ==
    IF e[1] = "If"
    THEN IF tag \in {"if", "else", "endif"}
         THEN 1 + (IF e[4] # None /\ Unwrap(e[4])[1] = "Expr" /\ Unwrap(e[4])[2][1] = "If"
                   THEN 1 ELSE 0)
         ELSE 0
    ELSE IF tag \in {OwnTags(e)[1], OwnTags(e)[2]} THEN 1 ELSE 0

\* the number of calls of create_label made on a context
LabelCalls(ctx) ==
    label_count(ctx, "if") + label_count(ctx, "else") + label_count(ctx, "endif")
    + label_count(ctx, "loop") + label_count(ctx, "endloop")
    + label_count(ctx, "while") + label_count(ctx, "endwhile")

\* a labelled expression has been generated
LabelledGenerated == calls > 0 /\ last.res.st = "Ok"

\* C16: the k-th call of create_label for a tag (k from 0) returns the tag
\* followed by k in 8 zero-padded lowercase hex digits; the counters of
\* different tags are independent; no two calls return the same label; and
\* the labels of one if (if, else, endif), of one loop and of one while carry
\* one index.
C16_LabelsAreTagAndHexIndexAndDistinct ==
    /\ labels = UNION {{LabelOf(tag, k) : k \in 0..(label_count(context, tag) - 1)} :
                       tag \in LabelTags}
    /\ Cardinality(labels) = LabelCalls(context)
    /\ LabelledGenerated =>
          /\ \A tag \in LabelTags :
                label_count(context, tag)
                    = label_count(last.pre, tag) + Created(last.node, tag)
          /\ \A i \in 1..Len(OwnTags(last.node)) :
                LabelOf(OwnTags(last.node)[i],
                        label_count(last.pre, OwnTags(last.node)[1]))
                    \in LabelsOf(last.res.val)
          /\ last.res.val[1] =
                <<"label", LabelOf(OwnTags(last.node)[1],
                                   label_count(last.pre, OwnTags(last.node)[1]))>>

\* C16, its case: the 17th if has got the labels of index 16, 00000010
C16_Witness ==
    /\ LabelledGenerated
    /\ last.node[1] = "If"
    /\ label_count(last.pre, "if") = 16
    /\ {"if00000010", "else00000010", "endif00000010", "if0000000a"} \subseteq labels

---------------------------------------------------------------------------
(* Properties of the bindings of let, stated against the scopes the calls  *)
(* made so far open and close: a scope is the line of the push of the let  *)
(* of x made in it, or 0                                                   *)

RECURSIVE Scopes(_, _, _)

\* the scopes after one more call
ScopesAfter(frames, call) ==
    CASE call.op = "enter_function" -> <<0, 0>>
      [] call.op = "enter" -> Append(frames, 0)
      [] call.op = "exit" -> IF frames = <<>> THEN frames
                             ELSE SubSeq(frames, 1, Len(frames) - 1)
      [] call.op = "let" -> IF frames = <<>> THEN <<call.line>>
                            ELSE [frames EXCEPT ![Len(frames)] = call.line]
      [] OTHER -> frames

\* the scopes after the first n calls of a history, from call i on
Scopes(history, i, frames) ==
    IF i > Len(history) THEN frames
    ELSE Scopes(history, i + 1, ScopesAfter(frames, history[i]))

\* the scopes the latest call was made in
ScopesBefore ==
    IF last.op \in ScopeOps
    THEN Scopes(SubSeq(last.history, 1, Len(last.history) - 1), 1, <<>>)
    ELSE Scopes(last.history, 1, <<>>)

\* the scopes after the latest call
ScopesNow == Scopes(last.history, 1, <<>>)

\* the line of the let of x that binds x in the scopes, or 0
BindingIn(frames) ==
    IF \E j \in 1..Len(frames) : frames[j] # 0
    THEN frames[CHOOSE j \in 1..Len(frames) :
                    frames[j] # 0 /\ \A h \in (j + 1)..Len(frames) : frames[h] = 0]
    ELSE 0

\* the latest call was get_variable or set_variable of x, made in the scope
\* of a let of x whose slot the machine still held
LetAccessed ==
    /\ CtxActed
    /\ last.op \in {"get_variable", "set_variable"}
    /\ last.arg = "x"
    /\ BindingIn(ScopesBefore) # 0
    /\ ~Run(last.before).fault
    /\ Alive(Run(last.before), BindingIn(ScopesBefore))

\* the address [rsp + 8*off] of the slot of the let that binds x
LetAddress == <<"qword", 8 * SlotsAbove(Run(last.before), BindingIn(ScopesBefore))>>

\* C18: after a let whose initializer pushes one slot, a get_variable or a
\* set_variable of its name in its scope, whatever push, pop, enter and exit
\* were called since, addresses [rsp + 8*off] with off the number of slots
\* above the slot the initializer pushed: get_variable emits push of that
\* address, set_variable, when it succeeds, the store to it.
C18_LetBindingAddressesItsSlot ==
    LetAccessed =>
        IF last.op = "get_variable"
        THEN /\ last.res.st = "Ok"
             /\ last.res.val = Some(Line(<<"push", LetAddress>>))
        ELSE /\ last.res.st \in {"Ok", "Err"}
             /\ last.res.st = "Ok" => last.res.val = Line(<<"mov", LetAddress, Reg("rax")>>)
             /\ last.res.st = "Err" =>
                   last.res.err = <<"ChangedImmutableVariable", "x">>

\* C18, its case: x has been read one slot below the top, a frame entered
\* and a slot pushed since its let
C18_Witness ==
    /\ LetAccessed
    /\ last.op = "get_variable"
    /\ Len(ScopesBefore) = 3
    /\ LetAddress = <<"qword", 8>>
    /\ last.res.val = Some(Line(<<"push", <<"qword", 8>> >>))

---------------------------------------------------------------------------
(* Lexical scoping of the name x, stated on the context as every call left *)
(* it: the lookups are applied to the context and compared with the let    *)
(* that is visible by the frames opened and closed so far.                 *)

\* the let of x visible now: its line, or 0
Visible == BindingIn(ScopesNow)

\* is_mutable of the let at a line
LetMutable(line) ==
    last.history[CHOOSE j \in 1..Len(last.history) :
                     last.history[j].op = "let" /\ last.history[j].line = line].arg[2]

\* the machine still holds the slot of the visible let
VisibleHeld == Visible # 0 /\ ~Run(code).fault /\ Alive(Run(code), Visible)

\* the address [rsp + 8*off] of the slot of the visible let
VisibleAddress == <<"qword", 8 * SlotsAbove(Run(code), Visible)>>

\* C19: in a function body, after any calls, get_variable, set_variable and
\* is_mutable of x resolve to the latest let of x in the innermost open frame
\* that has one: with none, get_variable finds nothing, is_mutable is None
\* and set_variable is IdentifierNotDeclared (so after the exit of the block
\* that declared the only x); with one, is_mutable is that let's, and while
\* its slot is held get_variable pushes that slot and set_variable stores to
\* it or, when that let is immutable, is ChangedImmutableVariable (so after
\* the exit of a block that shadowed x, the outer let's slot and mutability).
C19_LookupIsLexicallyScoped ==
    (CtxActed /\ pc = "body") =>
        /\ Visible = 0 =>
              /\ get_variable(context, "x").st = "Ok"
              /\ get_variable(context, "x").val = None
              /\ is_mutable(context.variables, "x") = None
              /\ set_variable(context, "x", Reg("rax")).st = "Err"
              /\ set_variable(context, "x", Reg("rax")).err = <<"IdentifierNotDeclared", "x">>
        /\ Visible # 0 =>
              is_mutable(context.variables, "x") = Some(LetMutable(Visible))
        /\ VisibleHeld =>
              /\ get_variable(context, "x").st = "Ok"
              /\ get_variable(context, "x").val = Some(Line(<<"push", VisibleAddress>>))
              /\ IF LetMutable(Visible)
                 THEN /\ set_variable(context, "x", Reg("rax")).st = "Ok"
                      /\ set_variable(context, "x", Reg("rax")).val
                            = Line(<<"mov", VisibleAddress, Reg("rax")>>)
                 ELSE /\ set_variable(context, "x", Reg("rax")).st = "Err"
                      /\ set_variable(context, "x", Reg("rax")).err
                            = <<"ChangedImmutableVariable", "x">>

\* C19, its case: the exit of a block whose let of x shadowed an outer let of
\* the other mutability; x resolves to the outer let again, whose slot is
\* the top of the stack
C19_Witness ==
    /\ CtxActed /\ pc = "body"
    /\ last.op = "exit"
    /\ BindingIn(ScopesBefore) # 0
    /\ VisibleHeld
    /\ Visible # BindingIn(ScopesBefore)
    /\ LetMutable(Visible) # LetMutable(BindingIn(ScopesBefore))
    /\ get_variable(context, "x").val = Some(Line(<<"push", <<"qword", 0>> >>))

---------------------------------------------------------------------------
(* Statement::Expr, stated on the latest call of SpecGen *)

\* the latest call was the codegen of a statement Expr(e)
ExprStatementCalled == Called /\ last.kind = "Statement" /\ last.node[1] = "Expr"

\* the statement Expr(e) left the global stack_size and the current frame's
\* stack_size as they were
C20_ExprStatementRestoresHeight ==
    (ExprStatementCalled /\ last.res.st = "Ok") =>
        /\ last.res.s.stack_size = last.pre.stack_size
        /\ FrameSize(last.res.s) = FrameSize(last.pre)

\* C20: the codegen of Statement::Expr(e) is the codegen of e: the same
\* outcome, text and context, nothing popped after it; for a literal e the
\* global stack_size and the current frame's stack_size are one more than
\* before the statement.
C20_ExprStatementIsItsExpression ==
    ExprStatementCalled =>
        /\ last.res = CodegenExpr(last.node[2], last.pre)
        /\ last.node[2] = Lit1 =>
              /\ last.res.st = "Ok"
              /\ last.res.s.stack_size = last.pre.stack_size + 1
              /\ FrameSize(last.res.s) = FrameSize(last.pre) + 1

\* C20, its case: the statement 1; has been generated and has left one slot
C20_Witness ==
    /\ ExprStatementCalled
    /\ last.node = <<"Expr", Lit1>>
    /\ last.res.st = "Ok"
    /\ last.res.s.stack_size = last.pre.stack_size + 1
    /\ FrameSize(last.res.s) = FrameSize(last.pre) + 1

---------------------------------------------------------------------------
(* lib.rs compile from the parsed program on, for programs that define a   *)
(* function name more than once: the registry is built, then the items are *)
(* generated one by one as the for loop of Program's codegen does.         *)

\* the most items of a program
MaxItems == 3

RegNames == {"f", "g"}

RegParams == {<<>>, <<[name |-> "a"]>>, <<[name |-> "a"], [name |-> "b"]>>}

\* the bodies {} and { g(); }
RegBodies ==
    { <<"Expr", <<"Block", <<>> >> >>,
      <<"Expr", <<"Block", << <<"Expr", <<"FunctionCall", "g", <<>> >> >> >> >> >> }

RegItems ==
    { <<"Function", name, params, body>> :
          name \in RegNames, params \in RegParams, body \in RegBodies }

RegPrograms == UNION { [1..n -> RegItems] : n \in 0..MaxItems }

InitReg ==
    /\ source = <<>>
    /\ tree \in RegPrograms
    /\ overflow_checks = FALSE
    /\ context = <<>>
    /\ pc = "registering types"
    /\ code = <<>>
    /\ result = [st |-> "Ok", err |-> <<>>]
    /\ last = <<>>
    /\ calls = 0
    /\ stream = <<>>
    /\ lexed = <<>>
    /\ labels = <<>>
    /\ parser = <<>>
    /\ machine = <<>>

\* let type_checker = TypeRegistry::from(&tree); let mut context = Context::new(..);
RegFrom ==
    /\ pc = "registering types"
    /\ context' = ContextNew(TypeRegistryFrom(tree))
    /\ pc' = "codegen"
    /\ UNCHANGED <<source, tree, code, result, last, calls, overflow_checks, stream, lexed, labels, parser, machine>>

\* one turn of the for loop of <Program as Codegen>::codegen_x86: the next
\* item is generated; last keeps what its enter_function returned
RegItem ==
    /\ pc = "codegen"
    /\ calls < Len(tree)
    /\ LET r == CodegenItem(tree[calls + 1], context)
       IN /\ context' = r.s
          /\ last' = [item |-> calls + 1, pre |-> context,
                      entered |-> enter_function(context, tree[calls + 1][2]),
                      res |-> r]
          /\ code' = code \o (IF r.st = "Ok" THEN r.val ELSE <<>>)
          /\ result' = Accumulate(result, r)
          /\ pc' = IF r.st = "Ok" THEN pc ELSE "failed"
    /\ calls' = calls + 1
    /\ UNCHANGED <<source, tree, overflow_checks, stream, lexed, labels, parser, machine>>

NextReg == RegFrom \/ RegItem

SpecReg == InitReg /\ [][NextReg]_vars

---------------------------------------------------------------------------
(* Properties of the type registry *)

\* the names the program defines
Defined == {tree[i][2] : i \in 1..Len(tree)}

\* the last definition of a name in program order
LastDefinition(name) ==
    tree[CHOOSE i \in 1..Len(tree) :
             tree[i][2] = name /\ \A j \in (i + 1)..Len(tree) : tree[j][2] # name]

\* the registry has been built
Registered == pc \in {"codegen", "failed"} /\ context # <<>>

\* C24: TypeRegistry::from(program) holds exactly the names the program
\* defines, each with the parameters of its last definition, whatever the
\* bodies call; get_function of another name misses; and enter_function for
\* any definition of a name opens the parameter frame of the last definition
\* of that name: the return address and one slot per parameter of it.
C24_RegistryHoldsLastDefinitions ==
    Registered =>
        /\ DOMAIN context.type_registry.functions = Defined
        /\ \A name \in Defined :
              get_function(context.type_registry, name)
                  = Some([params |-> LastDefinition(name)[3]])
        /\ \A name \in (RegNames \cup {"h"}) \ Defined :
              get_function(context.type_registry, name) = None
        /\ last # <<>> =>
              /\ last.entered.st = "Ok"
              /\ LET frames == last.entered.s.variables
                     params == LastDefinition(tree[last.item][2])[3]
                 IN /\ Len(frames) = Len(last.pre.variables) + 2
                    /\ frames[Len(frames) - 1].stack_size = 1 + Len(params)
                    /\ DOMAIN frames[Len(frames) - 1].variables
                          = {params[i].name : i \in 1..Len(params)}

\* C24, its case: a definition of f with one parameter has been entered
\* while a later definition of f has two, and its frame is that of the later
C24_Witness ==
    /\ Registered /\ last # <<>>
    /\ Len(tree[last.item][3]) = 1
    /\ Len(LastDefinition(tree[last.item][2])[3]) = 2
    /\ last.entered.s.variables[Len(last.entered.s.variables) - 1].stack_size = 3

---------------------------------------------------------------------------
(* Termination of the lexer, stated on the calls of next made so far *)

\* a call of next returned Ok(None)
GaveNone(r) == r.st = "Ok" /\ r.val = None

\* the cursor the i-th call of next started at
LexStart(i) == IF i = 1 THEN 0 ELSE lexed[i - 1].end

\* the calls so far that returned something else than Ok(None)
Given == IF last = <<>>
         THEN Cardinality({i \in 1..Len(lexed) : ~GaveNone(lexed[i])})
         ELSE last.given

\* C26: every call of next that returns a token or an error moves the
\* cursor forward by at least one character, so that at most len(source)
\* calls do; Ok(None) is returned only with the cursor at the end of the
\* source, is returned whenever the cursor is there, and once returned is
\* returned by every later call.
C26_LexerTerminates ==
    /\ Len(stream.source) = Len(source) - stream.location.index
    /\ \A i \in 1..Len(lexed) :
          /\ ~GaveNone(lexed[i]) => lexed[i].end > LexStart(i)
          /\ GaveNone(lexed[i]) => lexed[i].end = Len(source)
    /\ last # <<>> =>
          /\ ~GaveNone(last.res) => last.res.end > last.from
          /\ GaveNone(last.res) => last.res.end = Len(source)
          /\ GaveNone(last.prior) => GaveNone(last.res)
    /\ Given <= stream.location.index
    /\ stream.location.index <= Len(source)
    /\ stream.location.index = Len(source) => GaveNone(TokenStreamNext(stream))
    /\ Given = Len(source) => GaveNone(TokenStreamNext(stream))

\* C26, its case: a source of two characters whose first gave an error and
\* whose second a token, after which next has returned Ok(None) twice
C26_Witness ==
    /\ Len(source) = 2
    /\ lexed # <<>> /\ lexed[1].st = "Err"
    /\ last # <<>>
    /\ Given = 2
    /\ GaveNone(last.prior) /\ GaveNone(last.res)

---------------------------------------------------------------------------
(* parser.rs: the lookahead of the Parser.  peek, peek_ahead and consume   *)
(* are called in any order on a Parser over the lexer of a source; lexed   *)
(* is the sequence of tokens consume has returned, last the latest call    *)
(* with the Parser before it and its result (whose s is the Parser after). *)

\* the longest source, the most calls, the furthest lookahead
MaxText == 3
MaxPeeks == 3
MaxAhead == 2

\* a letter, the chars of the symbols + = += ==, the blank, and a char that
\* is in no token
PeekAlphabet == {"f", "+", "=", " ", "@"}

PeekSources == UNION {[1..n -> PeekAlphabet] : n \in 0..MaxText}

InitPeek ==
    /\ source \in PeekSources
    /\ parser = ParserNew(tokenize(source))
    /\ lexed = <<>>
    /\ pc = "parsing"
    /\ overflow_checks = FALSE
    /\ tree = <<>>
    /\ context = <<>>
    /\ code = <<>>
    /\ result = <<>>
    /\ last = <<>>
    /\ calls = 0
    /\ stream = <<>>
    /\ labels = <<>>
    /\ machine = <<>>

\* a method of the Parser has returned r
Peeked(op, n, r) ==
    /\ pc = "parsing"
    /\ calls < MaxPeeks
    /\ parser' = r.s
    /\ last' = [op |-> op, n |-> n, pre |-> parser, res |-> r]
    /\ calls' = calls + 1
    /\ UNCHANGED <<source, pc, tree, context, code, result, overflow_checks,
                   stream, labels, machine>>

\* self.peek()
PkPeek == Peeked("peek", 0, peek(parser)) /\ lexed' = lexed

\* self.peek_ahead(n)
PkPeekAhead ==
    \E n \in 1..MaxAhead : Peeked("peek_ahead", n, peek_ahead(parser, n)) /\ lexed' = lexed

\* self.consume()
PkConsume ==
    /\ Peeked("consume", 0, consume(parser))
    /\ lexed' = IF consume(parser).st = "Ok" /\ IsSome(consume(parser).val)
                THEN Append(lexed, Unwrap(consume(parser).val))
                ELSE lexed

NextPeek == PkPeek \/ PkPeekAhead \/ PkConsume

SpecPeek == InitPeek /\ [][NextPeek]_vars

---------------------------------------------------------------------------
(* Properties of the lookahead *)

\* the tokens the lexer gives from a stream on, in order, calling next until
\* it returns Ok(None) and going on after an error
TokensOf(ts) ==
    IF GaveNone(TokenStreamNext(ts)) THEN <<>>
    ELSE IF TokenStreamNext(ts).st = "Ok"
    THEN <<Unwrap(TokenStreamNext(ts).val)>> \o TokensOf(TokenStreamNext(ts).s)
    ELSE TokensOf(TokenStreamNext(ts).s)

\* the tokens a Parser has yet to give: its buffer, then the lexer's
Remaining(p) == p.buffer \o TokensOf(p.tokens)

\* the element n (0-based) of a sequence, as an Option
Nth(seq, n) == IF n < Len(seq) THEN Some(seq[n + 1]) ELSE None

\* C30: whatever peek, peek_ahead and consume calls were made, the tokens
\* consume has returned followed by the tokens the Parser has yet to give
\* are the lexer's tokens of the source, in order; a peek or peek_ahead(n)
\* leaves the tokens yet to give as they were and, when it returns Ok,
\* returns the n-th of them (the one the (n+1)-th consume from there
\* returns), or None when there are n or fewer; a consume that returns Ok
\* returns the first of them and leaves the rest, or None when there is none.
C30_LookaheadIsFifoOverLexer ==
    pc = "parsing" =>
        /\ lexed \o Remaining(parser) = TokensOf(tokenize(source))
        /\ (last # <<>> /\ last.op \in {"peek", "peek_ahead"}) =>
              /\ Remaining(last.res.s) = Remaining(last.pre)
              /\ last.res.st = "Ok" => last.res.val = Nth(Remaining(last.pre), last.n)
        /\ (last # <<>> /\ last.op = "consume") =>
              /\ last.res.st = "Ok" =>
                    /\ last.res.val = Nth(Remaining(last.pre), 0)
                    /\ Remaining(last.res.s)
                          = (IF Remaining(last.pre) = <<>> THEN <<>>
                             ELSE Tail(Remaining(last.pre)))
              /\ last.res.st # "Ok" => Remaining(last.res.s) = Remaining(last.pre)

\* C30, its case: the second of two consumes has returned the token a
\* peek_ahead(1) before them had returned, out of the buffer
C30_Witness ==
    /\ pc = "parsing" /\ last # <<>>
    /\ last.op = "consume"
    /\ Len(lexed) = 2
    /\ Len(TokensOf(tokenize(source))) = 3
    /\ last.pre.buffer # <<>>
    /\ last.res.val = Some(lexed[2])
    /\ lexed = SubSeq(TokensOf(tokenize(source)), 1, 2)

---------------------------------------------------------------------------
(* codegen/x86.rs: nested loops.  A loop or a while is generated whose     *)
(* body holds break and continue before and after an inner loop; a second  *)
(* loop may be generated after it on the same Context.                     *)

\* the deepest nesting of loops
MaxDepth == 2

NestJumps == { <<"Break">>, <<"Continue">> }

\* the bodies of a loop of depth d: { j1; j2; } and { j1; <inner loop>; j2; }
NestBodies(d) ==
    { <<"Expr", <<"Block", <<j1, j2>> >> >> : j1 \in NestJumps, j2 \in NestJumps }
    \cup (IF d > 1
          THEN { <<"Expr", <<"Block", <<j[1], <<"Expr", l>>, j[2]>> >> >> :
                     j \in NestJumps \X NestJumps, l \in NestLoops(d - 1) }
          ELSE {})

\* the loops and whiles of depth at most d
NestLoops(d) ==
    { <<"Loop", b>> : b \in NestJumps \cup NestBodies(d) }
    \cup { <<"While", Lit1, b>> : b \in NestJumps \cup NestBodies(d) }

InitNest ==
    /\ source = <<>>
    /\ tree = <<>>
    /\ overflow_checks = FALSE
    /\ context = ContextNew(TypeRegistryFrom(<<>>))
    /\ pc = "body"
    /\ code = <<>>
    /\ result = [st |-> "Ok", err |-> <<>>]
    /\ last = <<>>
    /\ calls = 0
    /\ stream = <<>>
    /\ lexed = <<>>
    /\ labels = <<>>
    /\ parser = <<>>
    /\ machine = <<>>

\* expr.codegen_x86(context) of a loop or a while
GenNest ==
    /\ pc = "body"
    /\ calls < 2
    /\ \E e \in (IF calls = 0 THEN NestLoops(MaxDepth) ELSE NestLoops(1)) :
          /\ context' = CodegenExpr(e, context).s
          /\ last' = [kind |-> "Expr", node |-> e, pre |-> context,
                      res |-> CodegenExpr(e, context)]
          /\ code' = code \o CodegenExpr(e, context).val
          /\ result' = Accumulate(result, CodegenExpr(e, context))
          /\ pc' = IF CodegenExpr(e, context).st = "Ok" THEN pc ELSE "aborted"
    /\ calls' = calls + 1
    /\ UNCHANGED <<source, tree, overflow_checks, stream, lexed, labels, parser, machine>>

NextNest == GenNest

SpecNest == InitNest /\ [][NextNest]_vars

---------------------------------------------------------------------------
(* Properties of break and continue, stated on the text of the latest loop *)
(* against the places of the loops' labels in it.                          *)

\* the jumps a node emits, in the order of the text: a break, a continue, or
\* the jump back that ends a loop or a while
JumpEvents(node) ==
    CASE node[1] \in {"Break", "Continue"} -> <<node[1]>>
      [] node[1] = "Expr" -> JumpEvents(node[2])
      [] node[1] = "Block" ->
            IF node[2] = <<>> THEN <<>>
            ELSE JumpEvents(Head(node[2])) \o JumpEvents(<<"Block", Tail(node[2])>>)
      [] node[1] = "Loop" -> JumpEvents(node[2]) \o <<"Back">>
      [] node[1] = "While" -> JumpEvents(node[3]) \o <<"Back">>
      [] OTHER -> <<>>

\* a set of numbers as an ascending sequence
Ascending(S) ==
    IF S = {} THEN <<>>
    ELSE <<CHOOSE x \in S : \A y \in S : x <= y>>
         \o Ascending(S \ {CHOOSE x \in S : \A y \in S : x <= y})

\* the lines of a text that are jmp, in order
JumpLines(text) == Ascending({i \in 1..Len(text) : text[i][1] = "jmp"})

\* the line of a text that defines a label, or 0
LabelLine(text, label) ==
    IF \E i \in 1..Len(text) : text[i] = <<"label", label>>
    THEN CHOOSE i \in 1..Len(text) : text[i] = <<"label", label>>
    ELSE 0

\* the loop of index k of a text, by the lines of its start and end labels
RegionOf(text, tags, k) ==
    [start |-> LabelLine(text, LabelOf(tags[1], k)),
     end |-> LabelLine(text, LabelOf(tags[2], k)),
     startLabel |-> LabelOf(tags[1], k),
     endLabel |-> LabelOf(tags[2], k),
     tag |-> tags[1]]

\* the loops and whiles a text defines
Regions(text) ==
    { r \in { RegionOf(text, tags, k) :
                  tags \in { <<"loop", "endloop">>, <<"while", "endwhile">> },
                  k \in 0..Len(text) } : r.start # 0 }

\* the loops of a text that enclose its line i
Enclosing(text, i) == { r \in Regions(text) : r.start < i /\ i < r.end }

\* the innermost loop of a text that encloses its line i
Innermost(text, i) ==
    CHOOSE r \in Enclosing(text, i) : \A q \in Enclosing(text, i) : q.start <= r.start

\* a loop or a while has been generated
NestGenerated == calls > 0 /\ last # <<>>

\* C22: in the text of a loop or while with loops nested in it, the jumps
\* are those of its breaks, continues and loop ends in order; each lies in a
\* loop of the text, a break is jmp to the end label of the innermost loop
\* around it, a continue (and the jump back of a loop end) jmp to its start
\* label; after an inner loop's end label the innermost loop is the outer
\* one again; the start label of a while is followed by the condition's
\* code, the pop and the jz to its end label; and the loop-label stack is
\* after the loop as it was before.
C22_JumpsTargetInnermostLoop ==
    NestGenerated =>
        /\ last.res.st = "Ok"
        /\ last.res.s.label_stack = last.pre.label_stack
        /\ Len(JumpLines(last.res.val)) = Len(JumpEvents(last.node))
        /\ \A n \in 1..Len(JumpLines(last.res.val)) :
              /\ Enclosing(last.res.val, JumpLines(last.res.val)[n]) # {}
              /\ last.res.val[JumpLines(last.res.val)[n]] =
                    <<"jmp",
                      IF JumpEvents(last.node)[n] = "Break"
                      THEN Innermost(last.res.val, JumpLines(last.res.val)[n]).endLabel
                      ELSE Innermost(last.res.val, JumpLines(last.res.val)[n]).startLabel>>
        /\ \A r \in Regions(last.res.val) :
              /\ r.end > r.start
              /\ r.tag = "while" =>
                    SubSeq(last.res.val, r.start + 1, r.start + 4)
                        = << <<"push", <<"lit", "1">> >>, <<"pop", Reg("rax")>>,
                             <<"or", Reg("rax"), Reg("rax")>>, <<"jz", r.endLabel>> >>

\* C22, its case: a break after an inner loop's end has jumped to the end of
\* the outer loop, and a continue inside the inner one to the inner start
C22_Witness ==
    /\ NestGenerated
    /\ last.res.st = "Ok"
    /\ Cardinality(Regions(last.res.val)) = 2
    /\ \E n \in 2..Len(JumpLines(last.res.val)) :
          /\ JumpEvents(last.node)[n] = "Break"
          /\ JumpEvents(last.node)[n - 1] = "Back"
          /\ Innermost(last.res.val, JumpLines(last.res.val)[n]).start = 1
          /\ last.res.val[JumpLines(last.res.val)[n]][2]
                = Innermost(last.res.val, JumpLines(last.res.val)[n]).endLabel
    /\ \E n \in 1..Len(JumpLines(last.res.val)) :
          /\ JumpEvents(last.node)[n] = "Continue"
          /\ Innermost(last.res.val, JumpLines(last.res.val)[n]).start > 1
          /\ Innermost(last.res.val, JumpLines(last.res.val)[n]).tag = "while"

---------------------------------------------------------------------------
(* Properties of the labels of the assembly text compile generates *)

\* the lines of a text that define a label
LabelLines(text) == {i \in 1..Len(text) : text[i][1] = "label"}

\* compile has generated the text of a program the parser accepted
Generated == pc = "writing" /\ result.st = "Ok"

\* C29: in the text generated for a program the parser accepts, no label is
\* defined twice: control-flow labels and function-name labels are pairwise
\* distinct.
C29_LabelDefinitionsAreDistinct ==
    Generated =>
        \A i \in LabelLines(code) : \A j \in LabelLines(code) :
            i # j => code[i][2] # code[j][2]

---------------------------------------------------------------------------
(* Properties of Context::pop during the codegen of a whole program *)

\* the panics of a pop on a counter that is 0 or with no frame open
PopPanics == {"attempt to subtract with overflow", "trying to pop from empty stack"}

\* compile has run the codegen of a program the parser accepted
CodegenRan == pc \in {"writing", "failed"} /\ tree # <<>> /\ tree.st = "Ok" /\ context # <<>>

\* C27: the codegen of a program the parser accepts never pops with the
\* global stack_size or the current frame's stack_size at 0, nor without a
\* frame: it does not end in the panic of such a pop, and no counter is left
\* wrapped below 0.
C27_PopNeverUnderflows ==
    CodegenRan =>
        /\ result.st = "Panic" => result.err[2] \notin PopPanics
        /\ context.stack_size >= 0
        /\ \A i \in 1..Len(context.variables) : context.variables[i].stack_size >= 0

---------------------------------------------------------------------------
(* The x86-64 machine running the text generated for a program whose only  *)
(* function is _start.  A machine is [ip, stack, regs, zf, status] with    *)
(* what the properties below observe of the run: ip is the number of the   *)
(* line to execute, the last element of stack is the top (rsp is higher    *)
(* the shorter the stack), regs are 64-bit registers holding numbers the   *)
(* model can write (0 .. MaxWord), zf the zero flag.  The kernel starts a  *)
(* process with the general registers cleared and argc on the stack.       *)
(* status is "running", "exited" (the exit syscall), "fault" (#DE of a     *)
(* div, an access outside the stack, a ret to no return address, running   *)
(* off the text) or "out of range" (a value the model cannot write).       *)
(* arrival is the latest label line reached, with the depth of the stack   *)
(* and whether a jump led there; entry maps a label to the depth at the    *)
(* latest arrival at it that was no jump; div is the latest div executed   *)
(* with the registers it read.                                             *)

\* the largest number a register of the model holds
MaxWord == 1000

\* the most instructions a run executes
MaxSteps == 60

CpuRegisters == {"rax", "rbx", "rcx", "rdx", "rdi"}

\* the value of a one-digit literal
LitValue(text) == (CHOOSE n \in 1..10 : HexDigits[n] = text) - 1

\* the machine at process entry, about to execute line `at` of the text
CpuNew(at) ==
    [ip |-> at,
     stack |-> << <<"argc">> >>,
     regs |-> [r \in CpuRegisters |-> 0],
     zf |-> FALSE,
     cmp |-> <<0, 0>>,
     status |-> "running",
     steps |-> 0,
     jumped |-> FALSE,
     arrival |-> <<>>,
     entry |-> EmptyMap,
     div |-> <<>>]

CpuStop(m, status) == [m EXCEPT !.status = status]

\* the next line is executed next
CpuNext(m) == [m EXCEPT !.ip = @ + 1, !.steps = @ + 1, !.jumped = FALSE]

\* a register is given a value; a value outside the model's range stops the run
CpuSet(m, r, v) ==
    IF v \in 0..MaxWord
    THEN CpuNext([m EXCEPT !.regs[r] = v])
    ELSE CpuStop(m, "out of range")

\* the address qword [rsp + n] is a slot of the stack
CpuInStack(m, n) == n >= 0 /\ n \div 8 < Len(m.stack)

\* the value of an operand that is read: a literal, a number, a register or
\* qword [rsp + n]
CpuRead(m, operand) ==
    CASE operand[1] = "lit" -> LitValue(operand[2])
      [] operand[1] = "num" -> operand[2]
      [] operand[1] = "reg" -> m.regs[operand[2]]
      [] operand[1] = "qword" -> m.stack[Len(m.stack) - (operand[2] \div 8)]

\* an operand can be read: an address is in the stack
CpuReadable(m, operand) == operand[1] = "qword" => CpuInStack(m, operand[2])

\* control goes to a label of the text
CpuJump(m, text, label) ==
    IF LabelLine(text, label) = 0 THEN CpuStop(m, "fault")
    ELSE [m EXCEPT !.ip = LabelLine(text, label), !.steps = @ + 1, !.jumped = TRUE]

\* a label line executes nothing; the arrival is recorded
CpuAtLabel(m, label) ==
    CpuNext([m EXCEPT
        !.arrival = [label |-> label, depth |-> Len(m.stack), jumped |-> m.jumped],
        !.entry = IF m.jumped THEN @ ELSE Insert(@, label, Len(m.stack))])

\* push operand
CpuPush(m, operand) ==
    IF ~CpuReadable(m, operand) THEN CpuStop(m, "fault")
    ELSE CpuNext([m EXCEPT !.stack = Append(@, CpuRead(m, operand))])

\* pop reg: a slot that holds no number (argc, a return address) is outside
\* what the model writes in a register
CpuPop(m, r) ==
    IF m.stack = <<>> THEN CpuStop(m, "fault")
    ELSE IF m.stack[Len(m.stack)] \notin 0..MaxWord THEN CpuStop(m, "out of range")
    ELSE CpuSet([m EXCEPT !.stack = SubSeq(@, 1, Len(@) - 1)], r, m.stack[Len(m.stack)])

\* add rsp, n
CpuRelease(m, n) ==
    IF n < 0 \/ n \div 8 > Len(m.stack) THEN CpuStop(m, "fault")
    ELSE CpuNext([m EXCEPT !.stack = SubSeq(@, 1, Len(@) - (n \div 8))])

\* mov dst, src: a store to qword [rsp + n], or a load of a register
CpuMov(m, dst, src) ==
    IF ~CpuReadable(m, src) \/ ~CpuReadable(m, dst) THEN CpuStop(m, "fault")
    ELSE IF dst[1] = "qword"
    THEN CpuNext([m EXCEPT !.stack[Len(m.stack) - (dst[2] \div 8)] = CpuRead(m, src)])
    ELSE IF CpuRead(m, src) \notin 0..MaxWord THEN CpuStop(m, "out of range")
    ELSE CpuSet(m, dst[2], CpuRead(m, src))

\* mul rbx: rdx:rax <- rax * rbx; the high half is 0 for the numbers of the model
CpuMul(m) ==
    IF m.regs["rax"] * m.regs["rbx"] \in 0..MaxWord
    THEN CpuNext([m EXCEPT !.regs["rax"] = m.regs["rax"] * m.regs["rbx"],
                           !.regs["rdx"] = 0])
    ELSE CpuStop(m, "out of range")

\* div rbx: rax <- rdx:rax / rbx, rdx <- the remainder; #DE when rbx is 0 or
\* the quotient does not fit in 64 bits (rdx >= rbx); with 0 < rdx < rbx the
\* quotient is at least 2^64 / rbx, outside the model's range
CpuDiv(m) ==
    IF m.regs["rbx"] = 0 \/ m.regs["rdx"] >= m.regs["rbx"]
    THEN CpuStop([m EXCEPT !.div = [rax |-> m.regs["rax"], rbx |-> m.regs["rbx"],
                                    rdx |-> m.regs["rdx"]]], "fault")
    ELSE IF m.regs["rdx"] # 0
    THEN CpuStop([m EXCEPT !.div = [rax |-> m.regs["rax"], rbx |-> m.regs["rbx"],
                                    rdx |-> m.regs["rdx"]]], "out of range")
    ELSE CpuNext([m EXCEPT !.regs["rax"] = m.regs["rax"] \div m.regs["rbx"],
                           !.regs["rdx"] = m.regs["rax"] % m.regs["rbx"],
                           !.div = [rax |-> m.regs["rax"], rbx |-> m.regs["rbx"],
                                    rdx |-> m.regs["rdx"]]])

\* the condition of a setcc after cmp a, b
CpuCondition(cc, a, b) ==
    CASE cc = "sete" -> a = b
      [] cc = "setne" -> a # b
      [] cc = "setl" -> a < b
      [] cc = "setle" -> a <= b
      [] cc = "setg" -> a > b
      [] cc = "setge" -> a >= b

\* one instruction of the text
CpuStep(m, text) ==
    IF m.ip \notin 1..Len(text) THEN CpuStop(m, "fault")
    ELSE CASE text[m.ip][1] = "global" -> CpuNext(m)
           [] text[m.ip][1] = "label" -> CpuAtLabel(m, text[m.ip][2])
           [] text[m.ip][1] = "push" -> CpuPush(m, text[m.ip][2])
           [] text[m.ip][1] = "pop" -> CpuPop(m, text[m.ip][2][2])
           [] text[m.ip][1] = "mov" -> CpuMov(m, text[m.ip][2], text[m.ip][3])
           [] text[m.ip][1] = "add" ->
                 IF text[m.ip][2] = Reg("rsp") THEN CpuRelease(m, text[m.ip][3][2])
                 ELSE CpuSet(m, "rax", m.regs["rax"] + m.regs["rbx"])
           [] text[m.ip][1] = "sub" -> CpuSet(m, "rax", m.regs["rax"] - m.regs["rbx"])
           [] text[m.ip][1] = "mul" -> CpuMul(m)
           [] text[m.ip][1] = "div" -> CpuDiv(m)
           [] text[m.ip][1] = "cmp" ->
                 CpuNext([m EXCEPT !.cmp = <<m.regs["rax"], m.regs["rbx"]>>])
           [] text[m.ip][1] \in {"sete", "setne", "setl", "setle", "setg", "setge"} ->
                 CpuSet(m, "rcx",
                        IF CpuCondition(text[m.ip][1], m.cmp[1], m.cmp[2]) THEN 1 ELSE 0)
           [] text[m.ip][1] = "or" -> CpuNext([m EXCEPT !.zf = (m.regs["rax"] = 0)])
           [] text[m.ip][1] = "jz" ->
                 IF m.zf THEN CpuJump(m, text, text[m.ip][2]) ELSE CpuNext(m)
           [] text[m.ip][1] = "jmp" -> CpuJump(m, text, text[m.ip][2])
           [] text[m.ip][1] = "syscall" ->
                 IF m.regs["rax"] = 60 THEN CpuStop(m, "exited") ELSE CpuStop(m, "fault")
           [] OTHER -> CpuStop(m, "fault")

---------------------------------------------------------------------------
(* A program whose only function is _start is generated and its text run   *)
(* on the machine from the label _start, one instruction per step.         *)

\* fn _start() { stmts }
StartProgram(stmts) ==
    << <<"Function", "_start", <<>>, <<"Expr", <<"Block", stmts>> >> >> >>

LetX == <<"Let", "x", Lit1, FALSE>>

\* the bodies of the loops run: a jump alone, after a let, in a block, in an
\* if, in the block of an if after a let
RunLoopBodies ==
    UNION { { j,
              <<"Expr", <<"Block", <<j>> >> >>,
              <<"Expr", <<"Block", <<LetX, j>> >> >>,
              <<"Expr", <<"If", Lit1, j, None>> >>,
              <<"Expr", <<"If", Lit1, <<"Expr", <<"Block", <<LetX, j>> >> >>, None>> >> } :
            j \in NestJumps }

\* loop, while (1) and while (0) of each body, followed by exit(0)
RunLoops ==
    { StartProgram(<< <<"Expr", l>>, <<"Exit", Lit("0")>> >>) :
          l \in { <<"Loop", b>> : b \in RunLoopBodies }
                \cup { <<"While", Lit(c), b>> : c \in {"0", "1"}, b \in RunLoopBodies } }

\* let mut i = 0; while (i < 2) { i += 1; [let x = 1; continue;] } exit(i);
RunCounted ==
    { StartProgram(<< <<"Let", "i", Lit("0"), TRUE>>,
                      <<"Expr", <<"While", <<"Less", Var("i"), Lit("2")>>,
                          <<"Expr", <<"Block",
                              << <<"Expr", <<"AddAssign", "i", Lit1>> >> >> \o rest>> >> >> >>,
                      <<"Exit", Var("i")>> >>) :
          rest \in { <<>>, << <<"Continue">> >>, <<LetX, <<"Continue">> >> } }

\* the arms of the ifs run
RunArms ==
    { <<"Expr", Lit1>>,
      LetX,
      <<"Expr", <<"Block", <<LetX, <<"Expr", Lit("2")>> >> >> >>,
      <<"Expr", <<"Loop", <<"Break">> >> >>,
      <<"Expr", <<"Loop", <<"Expr", <<"Block", <<LetX, <<"Break">> >> >> >> >> >> }

\* if (c) arm [else arm] of each condition and arms, followed by exit(0)
RunIfs ==
    { StartProgram(<< <<"Expr", <<"If", Lit(c), a, e>> >>, <<"Exit", Lit("0")>> >>) :
          c \in {"0", "1"}, a \in RunArms, e \in {None} \cup {Some(b) : b \in RunArms} }

\* statements run before a compound assignment: none, 5 % 3; and 2 * 3;
RunBefore ==
    { <<>>,
      << <<"Expr", <<"Mod", Lit("5"), Lit("3")>> >> >>,
      << <<"Expr", <<"Mul", Lit("2"), Lit("3")>> >> >> }

\* [before] let mut a = 7; a OP= b; exit(a);
RunAssigns ==
    { StartProgram(before \o
                   << <<"Let", "a", Lit("7"), TRUE>>,
                      <<"Expr", <<op, "a", Lit(b)>> >>,
                      <<"Exit", Var("a")>> >>) :
          before \in RunBefore, op \in AssignVariants, b \in {"2", "3"} }

\* the quotients and remainders run: one division of every pair of operands,
\* and divisions after an earlier Mod, Mul or Div
RunDivisions ==
    { <<v, Lit(a), Lit(b)>> : v \in {"Div", "Mod"}, a \in {"0", "5", "8", "9"},
                              b \in {"1", "2", "3", "9"} }
    \cup { <<"Add", <<"Mod", Lit("5"), Lit("3")>>, <<"Div", Lit("8"), Lit("2")>> >>,
           <<"Add", <<"Mod", Lit("5"), Lit("3")>>, <<"Div", Lit("8"), Lit("4")>> >>,
           <<"Add", <<"Mul", Lit("2"), Lit("3")>>, <<"Div", Lit("8"), Lit("2")>> >>,
           <<"Add", <<"Div", Lit("8"), Lit("4")>>, <<"Mod", Lit("7"), Lit("3")>> >>,
           <<"Add", <<"Mod", Lit("6"), Lit("3")>>, <<"Div", Lit("8"), Lit("2")>> >> }

RunExits == { StartProgram(<< <<"Exit", e>> >>) : e \in RunDivisions }

RunPrograms == RunLoops \cup RunCounted \cup RunIfs \cup RunAssigns \cup RunExits

InitRun ==
    /\ source = <<>>
    /\ tree \in RunPrograms
    /\ overflow_checks = FALSE
    /\ context = <<>>
    /\ pc = "codegen"
    /\ code = <<>>
    /\ result = [st |-> "Ok", err |-> <<>>]
    /\ last = <<>>
    /\ calls = 0
    /\ stream = <<>>
    /\ lexed = <<>>
    /\ labels = <<>>
    /\ parser = <<>>
    /\ machine = <<>>

\* let mut context = Context::new(..); tree.codegen_x86(&mut context)?; the
\* text is loaded and the process starts at _start
RunCodegen ==
    /\ pc = "codegen"
    /\ context' = ProgramCodegen(tree, ContextNew(TypeRegistryFrom(tree))).s
    /\ result' = Accumulate(result, ProgramCodegen(tree, ContextNew(TypeRegistryFrom(tree))))
    /\ IF ProgramCodegen(tree, ContextNew(TypeRegistryFrom(tree))).st = "Ok"
       THEN /\ code' = ProgramCodegen(tree, ContextNew(TypeRegistryFrom(tree))).val
            /\ machine' = CpuNew(LabelLine(code', "_start"))
            /\ pc' = "running"
       ELSE /\ code' = code
            /\ machine' = machine
            /\ pc' = "failed"
    /\ UNCHANGED <<source, tree, last, calls, overflow_checks, stream, lexed, labels, parser>>

\* the machine executes the instruction at ip
RunStep ==
    /\ pc = "running"
    /\ machine.status = "running"
    /\ machine.steps < MaxSteps
    /\ machine' = CpuStep(machine, code)
    /\ last' = machine
    /\ UNCHANGED <<source, pc, tree, context, code, result, calls, overflow_checks,
                   stream, lexed, labels, parser>>

NextRun == RunCodegen \/ RunStep

SpecRun == InitRun /\ [][NextRun]_vars

---------------------------------------------------------------------------
(* Properties of the arithmetic the generated text computes *)

\* the unsigned value of an arithmetic expression of literals
Eval(e) ==
    CASE e[1] = "IntegerLiteral" -> LitValue(e[2])
      [] e[1] = "Add" -> Eval(e[2]) + Eval(e[3])
      [] e[1] = "Sub" -> Eval(e[2]) - Eval(e[3])
      [] e[1] = "Mul" -> Eval(e[2]) * Eval(e[3])
      [] e[1] = "Div" -> Eval(e[2]) \div Eval(e[3])
      [] e[1] = "Mod" -> Eval(e[2]) % Eval(e[3])

\* the machine has been started on the text of the program
Started == pc = "running" /\ machine # <<>>

\* the run is over: the process has exited or faulted, or the model has
\* stopped following it
Halted == Started /\ machine.status # "running"

\* the expression of a program exit(e);
ExitExpr == tree[1][4][2][2][1][2]

\* C25: rdx is 0 at every div rbx the text executes, and a program exit(e)
\* of quotients and remainders of literals with non-zero divisors, alone or
\* after an earlier Mul, Div or Mod, exits with the unsigned value of e.
C25_DivisionsComputeQuotientAndRemainder ==
    /\ (Started /\ machine.div # <<>>) => machine.div.rdx = 0
    /\ (Halted /\ tree \in RunExits) =>
          /\ machine.status = "exited"
          /\ machine.regs["rdi"] = Eval(ExitExpr)

\* the statements before the let of a program of RunAssigns, the operator of
\* its compound assignment and the value assigned
AssignBefore == SubSeq(tree[1][4][2][2], 1, Len(tree[1][4][2][2]) - 3)
AssignNode == tree[1][4][2][2][Len(tree[1][4][2][2]) - 1][2]
AssignValue == Eval(<<AssignOp(AssignNode[1]), Lit("7"), AssignNode[3]>>)

\* C23: a program let mut a = 7; a OP= b; exit(a); whatever ran before
\* it, exits with 7 OP b, a the left operand, and has 7 OP b in the slot of
\* a, the stack as deep as after the let.
C23_CompoundAssignStoresLeftOpRight ==
    (Halted /\ tree \in RunAssigns) =>
        /\ machine.status = "exited"
        /\ machine.regs["rdi"] = AssignValue
        /\ Len(machine.stack) = Len(AssignBefore) + 2
        /\ machine.stack[Len(AssignBefore) + 2] = AssignValue

---------------------------------------------------------------------------
(* Properties of the run-time stack across jumps *)

\* the machine has just arrived at a label by a jump
ArrivedByJump == Started /\ machine.arrival # <<>> /\ machine.arrival.jumped

\* C28: in a run of a loop or while whose body holds a break or continue,
\* bare, in a block, after a let of the block or in an if arm, every arrival
\* by a jump at the loop's start or end label finds the stack as deep as it
\* was when the loop was entered.
C28_JumpsLeaveStackBalanced ==
    (ArrivedByJump /\ tree \in RunLoops \cup RunCounted) =>
        \A r \in Regions(code) :
            machine.arrival.label \in {r.startLabel, r.endLabel} =>
                machine.arrival.depth = machine.entry[r.startLabel]

\* the if of a program of RunIfs, the context its codegen starts from (the
\* frame of _start and that of its block entered) and the result of its codegen
IfNode == tree[1][4][2][2][1][2]
IfEntry == enter(enter_function(ContextNew(TypeRegistryFrom(tree)), "_start").s).s
IfExit == CodegenExpr(IfNode, IfEntry)

\* the stack_size of every open frame of a context
FrameSizes(ctx) == [i \in 1..Len(ctx.variables) |-> ctx.variables[i].stack_size]

\* C21: codegen of an if whose check pushes one slot leaves the open frames
\* and the stack_size of each as they were, with or without an else and
\* whatever the arms push or declare; and in a run every arrival at the endif
\* label, through the then arm, the else arm or the empty else path, finds
\* the stack as deep as it was at the if label.
C21_IfHasSymmetricStackEffects ==
    tree \in RunIfs =>
        /\ IfExit.st = "Ok"
        /\ FrameSizes(IfExit.s) = FrameSizes(IfEntry)
        /\ (Started /\ machine.arrival # <<>>) =>
              \A k \in 0..Len(code) :
                  machine.arrival.label = LabelOf("endif", k) =>
                      machine.arrival.depth = machine.entry[LabelOf("if", k)]

=============================================================================
